---------------------------- MODULE Spec2Model ----------------------------
(***************************************************************************)
(* A model of nelly, a Flutter embedder that runs as a Wayland client.     *)
(*                                                                         *)
(* Two threads of control are modelled: the engine's threads, which call   *)
(* the embedder callbacks (platform_message, vsync, post_task,             *)
(* create_backing_store, collect_backing_store, present_view and the       *)
(* completion callbacks of add_view / remove_view), and the platform       *)
(* thread, which runs the calloop event loop and dispatches the messages   *)
(* of the two channels (EmbedderMessage, NellyEvent) and the Wayland       *)
(* events (configure, preferred scale, buffer release, frame done).        *)
(***************************************************************************)
EXTENDS Integers, Sequences, FiniteSets, TLC

(***************************************************************************)
(* Bounds of the model.                                                    *)
(***************************************************************************)
\* platform messages the engine delivers in one run
MaxMsgs == 3
\* surfaces ever created in one run, the implicit one included
MaxSurfaces == 3

(***************************************************************************)
(* Binary codec:   src/src/platform_message/binary.rs                        *)
(* A payload is a sequence of bytes; a reader is the not yet consumed      *)
(* suffix of the payload (a Cursor over the slice).                        *)
(***************************************************************************)
Byte == 0..255

Take(s, n) == SubSeq(s, 1, n)

Drop(s, n) == SubSeq(s, n + 1, Len(s))

Zeros(n) == [i \in 1..n |-> 0]

Ok(v, rest) == [ok |-> TRUE, val |-> v, rest |-> rest]

Err(kind) == [ok |-> FALSE, err |-> kind]

\* A panic (unwinding out of the decoder) is neither Ok nor Err.
Panic(what) == [ok |-> FALSE, err |-> "panic", what |-> what]

IsPanic(r) == ~r.ok /\ r.err = "panic"

\* BinaryReader::fill_bytes: read_exact of n bytes, UnexpectedEof when fewer remain
fill_bytes(s, n) ==
    IF Len(s) >= n THEN Ok(Take(s, n), Drop(s, n)) ELSE Err("UnexpectedEof")

\* BinaryReader::assert_finished
assert_finished(s) ==
    IF Len(s) = 0 THEN Ok(<<>>, s) ELSE Err("InvalidData")

RECURSIVE FromLeBytes(_)
FromLeBytes(bs) ==
    IF Len(bs) = 0 THEN 0 ELSE Head(bs) + 256 * FromLeBytes(Tail(bs))

RECURSIVE ToLeBytes(_, _)
ToLeBytes(x, n) ==
    IF n = 0 THEN <<>> ELSE <<x % 256>> \o ToLeBytes(x \div 256, n - 1)

AllEq(bs, b) == \A i \in 1..Len(bs) : bs[i] = b

\* Integers of 2^24 and more in absolute value stand outside the model's
\* arithmetic: the decoders map them to one of these classes.
Big == 2^30

\* an unsigned 64-bit value above isize::MAX (the top bit is set)
BigTop == 2^30 + 1

\* from_ne_bytes of an unsigned integer on a little-endian host
UnsignedFromBytes(bs) ==
    IF Len(bs) <= 3 \/ AllEq(Drop(bs, 3), 0)
    THEN FromLeBytes(Take(bs, IF Len(bs) < 3 THEN Len(bs) ELSE 3))
    ELSE IF Len(bs) = 8 /\ bs[8] >= 128 THEN BigTop
    ELSE Big

\* from_ne_bytes of a two's complement integer of at least 4 bytes
SignedFromBytes(bs) ==
    IF AllEq(Drop(bs, 3), 0) THEN FromLeBytes(Take(bs, 3))
    ELSE IF AllEq(Drop(bs, 3), 255) THEN FromLeBytes(Take(bs, 3)) - 16777216
    ELSE Big

\* to_ne_bytes of an i64 with |x| < 2^24
I64Bytes(x) ==
    IF x >= 0 THEN ToLeBytes(x, 3) \o Zeros(5)
    ELSE ToLeBytes(x + 16777216, 3) \o [i \in 1..5 |-> 255]

\* to_ne_bytes of a u64 / u32 below 2^24
U64Bytes(x) == ToLeBytes(x, 3) \o Zeros(5)

U32Bytes(x) == ToLeBytes(x, 3) \o Zeros(1)

\* impl_scalar_encodable!: decode of u8, u32, u64, i64
read_u8(s) ==
    LET r == fill_bytes(s, 1) IN
    IF r.ok THEN Ok(r.val[1], r.rest) ELSE r

read_u32(s) ==
    LET r == fill_bytes(s, 4) IN
    IF r.ok THEN Ok(UnsignedFromBytes(r.val), r.rest) ELSE r

read_u64(s) ==
    LET r == fill_bytes(s, 8) IN
    IF r.ok THEN Ok(UnsignedFromBytes(r.val), r.rest) ELSE r

read_i64(s) ==
    LET r == fill_bytes(s, 8) IN
    IF r.ok THEN Ok(SignedFromBytes(r.val), r.rest) ELSE r

\* impl BinaryDecodable for ViewId
read_view_id(s) == read_i64(s)

\* An f64 of the model: a finite value counted in halves (Fin(3) is 1.5), an
\* infinity or a NaN.
Fin(h) == [k |-> "fin", h |-> h]

NaN == [k |-> "nan", h |-> 0]

PosInf == [k |-> "inf", h |-> 0]

NegInf == [k |-> "ninf", h |-> 0]

\* a finite f64 beyond u32::MAX, whatever the scale factor it is multiplied by
Huge == [k |-> "huge", h |-> 0]

\* The f64 values of the model with their IEEE 754 bit patterns (to_ne_bytes on
\* a little-endian host).
F64Table ==
    << <<NaN,     <<0, 0, 0, 0, 0, 0, 248, 127>> >>,
       <<PosInf,  <<0, 0, 0, 0, 0, 0, 240, 127>> >>,
       <<NegInf,  <<0, 0, 0, 0, 0, 0, 240, 255>> >>,
       <<Fin(-2), <<0, 0, 0, 0, 0, 0, 240, 191>> >>,
       <<Fin(0),  <<0, 0, 0, 0, 0, 0, 0, 0>> >>,
       <<Fin(1),  <<0, 0, 0, 0, 0, 0, 224, 63>> >>,
       <<Fin(2),  <<0, 0, 0, 0, 0, 0, 240, 63>> >>,
       <<Fin(3),  <<0, 0, 0, 0, 0, 0, 248, 63>> >>,
       <<Fin(4),  <<0, 0, 0, 0, 0, 0, 0, 64>> >>,
       <<Fin(5),  <<0, 0, 0, 0, 0, 0, 4, 64>> >>,
       <<Fin(6),  <<0, 0, 0, 0, 0, 0, 8, 64>> >>,
       <<Fin(8),  <<0, 0, 0, 0, 0, 0, 16, 64>> >> >>

F64Values == {F64Table[i][1] : i \in 1..Len(F64Table)}

F64Bytes(x) == F64Table[CHOOSE i \in 1..Len(F64Table) : F64Table[i][1] = x][2]

\* f64::from_ne_bytes; the inputs of the model carry bit patterns of the table
F64FromBytes(bs) ==
    F64Table[CHOOSE i \in 1..Len(F64Table) : F64Table[i][2] = bs][1]

read_f64(s) ==
    LET r == fill_bytes(s, 8) IN
    IF r.ok THEN Ok(F64FromBytes(r.val), r.rest) ELSE r

\* String::from_utf8: every character is one ASCII byte, or a lead byte with
\* one to three continuation bytes, neither overlong nor a surrogate nor
\* above U+10FFFF
RECURSIVE Utf8Valid(_)
Utf8Valid(bs) ==
    IF bs = <<>> THEN TRUE
    ELSE LET b == bs[1]
             n == IF b < 128 THEN 1
                  ELSE IF b \in 194..223 THEN 2
                  ELSE IF b \in 224..239 THEN 3
                  ELSE IF b \in 240..244 THEN 4
                  ELSE 0
         IN /\ n # 0
            /\ Len(bs) >= n
            /\ \A i \in 2..n : bs[i] \in 128..191
            /\ b = 224 => bs[2] >= 160
            /\ b = 237 => bs[2] <= 159
            /\ b = 240 => bs[2] >= 144
            /\ b = 244 => bs[2] <= 143
            /\ Utf8Valid(Drop(bs, n))

\* BinaryReader::read_string: a u64 length, then that many bytes of UTF-8.
\* vec![0; len] panics with a capacity overflow when len exceeds isize::MAX.
read_string(s) ==
    LET l == read_u64(s) IN
    IF ~l.ok THEN l
    ELSE IF l.val = BigTop THEN Panic("capacity overflow")
    ELSE IF l.val = Big THEN Err("UnexpectedEof")
    ELSE LET b == fill_bytes(l.rest, l.val) IN
         IF ~b.ok THEN b
         ELSE IF Utf8Valid(b.val) THEN Ok(b.val, b.rest)
         ELSE Err("InvalidData")

\* The f32 values of the model with their IEEE 754 bit patterns (to_ne_bytes on
\* a little-endian host).
F32Table ==
    << <<NaN,     <<0, 0, 192, 127>> >>,
       <<PosInf,  <<0, 0, 128, 127>> >>,
       <<NegInf,  <<0, 0, 128, 255>> >>,
       <<Fin(-2), <<0, 0, 128, 191>> >>,
       <<Fin(0),  <<0, 0, 0, 0>> >>,
       <<Fin(1),  <<0, 0, 0, 63>> >>,
       <<Fin(2),  <<0, 0, 128, 63>> >>,
       <<Fin(3),  <<0, 0, 192, 63>> >> >>

F32Values == {F32Table[i][1] : i \in 1..Len(F32Table)}

F32Bytes(x) == F32Table[CHOOSE i \in 1..Len(F32Table) : F32Table[i][1] = x][2]

\* f32::from_ne_bytes
F32FromBytes(bs) ==
    F32Table[CHOOSE i \in 1..Len(F32Table) : F32Table[i][2] = bs][1]

\* to_ne_bytes of a u8, a u16, an i8, an i16, and of an i32 with |x| < 2^24
U8Bytes(x) == ToLeBytes(x, 1)

U16Bytes(x) == ToLeBytes(x, 2)

I8Bytes(x) == ToLeBytes(IF x >= 0 THEN x ELSE x + 256, 1)

I16Bytes(x) == ToLeBytes(IF x >= 0 THEN x ELSE x + 65536, 2)

I32Bytes(x) ==
    IF x >= 0 THEN ToLeBytes(x, 3) \o Zeros(1)
    ELSE ToLeBytes(x + 16777216, 3) \o <<255>>

\* from_ne_bytes of a two's complement integer of one or two bytes
SmallSignedFromBytes(bs) ==
    IF FromLeBytes(bs) >= 2^(8 * Len(bs) - 1)
    THEN FromLeBytes(bs) - 2^(8 * Len(bs))
    ELSE FromLeBytes(bs)

\* impl_scalar_encodable!: decode of u16, i8, i16, i32, f32
read_u16(s) ==
    LET r == fill_bytes(s, 2) IN
    IF r.ok THEN Ok(UnsignedFromBytes(r.val), r.rest) ELSE r

read_i8(s) ==
    LET r == fill_bytes(s, 1) IN
    IF r.ok THEN Ok(SmallSignedFromBytes(r.val), r.rest) ELSE r

read_i16(s) ==
    LET r == fill_bytes(s, 2) IN
    IF r.ok THEN Ok(SmallSignedFromBytes(r.val), r.rest) ELSE r

read_i32(s) ==
    LET r == fill_bytes(s, 4) IN
    IF r.ok THEN Ok(SignedFromBytes(r.val), r.rest) ELSE r

read_f32(s) ==
    LET r == fill_bytes(s, 4) IN
    IF r.ok THEN Ok(F32FromBytes(r.val), r.rest) ELSE r

\* a variant of write_string that writes the length as a u32
write_string_u32_length(str) == U32Bytes(Len(str)) \o str

\* BinaryWriter::write_string
write_string(str) == U64Bytes(Len(str)) \o str

\* BinaryWriter::write::<T> and write_string: the bytes written for a value
write(type, x) ==
    CASE type = "u8" -> U8Bytes(x)
      [] type = "u16" -> U16Bytes(x)
      [] type = "u32" -> U32Bytes(x)
      [] type = "u64" -> U64Bytes(x)
      [] type = "i8" -> I8Bytes(x)
      [] type = "i16" -> I16Bytes(x)
      [] type = "i32" -> I32Bytes(x)
      [] type = "i64" -> I64Bytes(x)
      [] type = "f32" -> F32Bytes(x)
      [] type = "f64" -> F64Bytes(x)
      [] type = "ViewId" -> I64Bytes(x)
      [] type = "String" -> write_string(x)

\* BinaryReader::read::<T> and read_string
read(type, s) ==
    CASE type = "u8" -> read_u8(s)
      [] type = "u16" -> read_u16(s)
      [] type = "u32" -> read_u32(s)
      [] type = "u64" -> read_u64(s)
      [] type = "i8" -> read_i8(s)
      [] type = "i16" -> read_i16(s)
      [] type = "i32" -> read_i32(s)
      [] type = "i64" -> read_i64(s)
      [] type = "f32" -> read_f32(s)
      [] type = "f64" -> read_f64(s)
      [] type = "ViewId" -> read_view_id(s)
      [] type = "String" -> read_string(s)

(***************************************************************************)
(* Platform requests: src/src/platform_message/{mod,shutdown,xdg_toplevel,  *)
(* wlr_layer}.rs                                                           *)
(***************************************************************************)
\* <T as PlatformRequest>::CHANNEL of the types of all_platform_message!
Channels ==
    { "nelly/graceful_shutdown",
      "wayland/xdg_toplevel/create",
      "wayland/xdg_toplevel/initial_commit",
      "wayland/xdg_toplevel/update",
      "wayland/xdg_toplevel/update_view_constraints",
      "wayland/xdg_toplevel/remove",
      "wayland/wlr_layer/create",
      "wayland/wlr_layer/update",
      "wayland/wlr_layer/remove" }

\* impl BinaryDecodable for Layer
decode_Layer(s) ==
    LET b == read_u8(s) IN
    IF ~b.ok THEN b
    ELSE IF b.val \in 0..3 THEN b
    ELSE Err("InvalidData")

\* impl BinaryDecodable for Anchor: Anchor::from_bits knows the four edge bits
decode_Anchor(s) ==
    LET b == read_u32(s) IN
    IF ~b.ok THEN b
    ELSE IF b.val \in 0..15 THEN b
    ELSE Err("InvalidData")

\* BinaryReader::read::<T> for the field types of the requests
read_field(type, s) ==
    CASE type = "ViewId" -> read_view_id(s)
      [] type = "u32" -> read_u32(s)
      [] type = "f64" -> read_f64(s)
      [] type = "String" -> read_string(s)
      [] type = "Layer" -> decode_Layer(s)
      [] type = "Anchor" -> decode_Anchor(s)
      [] type = "assert_finished" -> assert_finished(s)

\* The fields the decode function of each request type reads, in order; each
\* read is followed by `?`, so the first failure ends the decoding.
\* (UpdateViewConstraints::decode asserts the end of the payload itself.)
Fields(channel) ==
    CASE channel = "nelly/graceful_shutdown" -> <<>>
      [] channel = "wayland/xdg_toplevel/create" -> <<>>
      [] channel = "wayland/xdg_toplevel/initial_commit" -> <<"ViewId">>
      [] channel = "wayland/xdg_toplevel/update" -> <<"ViewId", "String", "String">>
      [] channel = "wayland/xdg_toplevel/update_view_constraints" ->
            <<"ViewId", "f64", "f64", "f64", "f64", "assert_finished">>
      [] channel = "wayland/xdg_toplevel/remove" -> <<"ViewId">>
      [] channel = "wayland/wlr_layer/create" -> <<"Layer", "String">>
      [] channel = "wayland/wlr_layer/update" -> <<"ViewId", "u32", "u32", "Anchor">>
      [] channel = "wayland/wlr_layer/remove" -> <<"ViewId">>

\* the reads of one decode function: the values read, or the first error
RECURSIVE read_fields(_, _)
read_fields(types, s) ==
    IF types = <<>> THEN Ok(<<>>, s)
    ELSE LET r == read_field(Head(types), s) IN
         IF ~r.ok THEN r
         ELSE LET t == read_fields(Tail(types), r.rest) IN
              IF ~t.ok THEN t ELSE Ok(<<r.val>> \o t.val, t.rest)

\* the request each decode function builds from the values it read
Request(channel, f) ==
    CASE channel = "nelly/graceful_shutdown" -> [type |-> "Shutdown"]
      [] channel = "wayland/xdg_toplevel/create" -> [type |-> "XdgToplevelCreate"]
      [] channel = "wayland/xdg_toplevel/initial_commit" ->
            [type |-> "XdgToplevelInitialCommit", view_id |-> f[1]]
      [] channel = "wayland/xdg_toplevel/update" ->
            [type |-> "XdgToplevelUpdate", view_id |-> f[1], title |-> f[2], app_id |-> f[3]]
      [] channel = "wayland/xdg_toplevel/update_view_constraints" ->
            [type |-> "XdgToplevelUpdateViewConstraints", view_id |-> f[1],
             constraints |-> [min_width |-> f[2], min_height |-> f[3],
                              max_width |-> f[4], max_height |-> f[5]]]
      [] channel = "wayland/xdg_toplevel/remove" ->
            [type |-> "XdgToplevelRemove", view_id |-> f[1]]
      [] channel = "wayland/wlr_layer/create" ->
            [type |-> "WlrLayerCreate", layer |-> f[1], namespace |-> f[2]]
      [] channel = "wayland/wlr_layer/update" ->
            [type |-> "WlrLayerUpdate", view_id |-> f[1], width |-> f[2],
             height |-> f[3], anchor |-> f[4]]
      [] channel = "wayland/wlr_layer/remove" ->
            [type |-> "WlrLayerRemove", view_id |-> f[1]]

\* <T as BinaryDecodable>::decode of the request type of a channel of the table
decode_request(channel, s) ==
    LET r == read_fields(Fields(channel), s) IN
    IF r.ok THEN Ok(Request(channel, r.val), r.rest) ELSE r

\* a variant of _decode that takes a name it does not know for the shutdown
\* channel
_decode_fallback(channel, s) ==
    decode_request(IF channel \in Channels THEN channel ELSE "nelly/graceful_shutdown", s)

\* AnyPlatformRequest::_decode: the channel name selects the type by an exact match
_decode(channel, s) ==
    IF channel \in Channels THEN decode_request(channel, s) ELSE Err("InvalidInput")

\* AnyPlatformRequest::decode
decode(channel, data) ==
    LET d == _decode(channel, data) IN
    IF ~d.ok THEN d ELSE
    LET f == assert_finished(d.rest) IN
    IF ~f.ok THEN f ELSE d

(***************************************************************************)
(* Surface/size negotiation: src/src/shell/compositor.rs                   *)
(***************************************************************************)
\* Option<T>: None, or Some(x)
None == <<>>

Some(x) == <<x>>

\* u32::MAX.  The checker's integers are 32 bits wide, so the greatest u32 is
\* modelled by a number greater than every size the model computes.
U32_MAX == 2^30

\* volito::ViewId::IMPLICIT
IMPLICIT == 0

\* the denominator of wp_fractional_scale_v1's preferred scale
ScaleDen == 120

\* the scale factors the compositor announces, in 120ths: 1.0, 1.5
Scales == {120, 180}

CeilDiv(a, b) == -((-a) \div b)

FloorDiv(a, b) == a \div b

\* x * pixel_ratio for an f64 x of the model (in halves) and a scale in 120ths;
\* the result is a finite value in 240ths, an infinity or a NaN
Scaled(x, scale) ==
    IF x.k = "fin" THEN [k |-> "fin", n |-> x.h * scale]
    ELSE IF x.k = "huge" THEN (IF scale = 0 THEN [k |-> "fin", n |-> 0] ELSE [k |-> "huge", n |-> 0])
    ELSE IF scale = 0 THEN [k |-> "nan", n |-> 0]
    ELSE [k |-> x.k, n |-> 0]

\* LogicalSizeConstraints::to_physical::normalize after f64::ceil
normalize_ceil(p) ==
    IF p.k \in {"nan", "inf", "ninf"} THEN None
    ELSE IF p.k = "huge" THEN None
    ELSE LET r == CeilDiv(p.n, 2 * ScaleDen) IN
         IF r >= 0 /\ r <= U32_MAX THEN Some(r) ELSE None

\* LogicalSizeConstraints::to_physical::normalize after f64::floor
normalize_floor(p) ==
    IF p.k \in {"nan", "inf", "ninf"} THEN None
    ELSE IF p.k = "huge" THEN None
    ELSE LET r == FloorDiv(p.n, 2 * ScaleDen) IN
         IF r >= 0 /\ r <= U32_MAX THEN Some(r) ELSE None

unwrap_or(o, d) == IF o = None THEN d ELSE o[1]

\* LogicalSizeConstraints::to_physical::min
to_physical_min(p) == unwrap_or(normalize_ceil(p), 0)

\* a variant of to_physical_max that falls back to 0 as a minimum does
to_physical_max_zero(p) == unwrap_or(normalize_floor(p), 0)

\* LogicalSizeConstraints::to_physical::max
to_physical_max(p) == unwrap_or(normalize_floor(p), U32_MAX)

\* LogicalSizeConstraints::to_physical
to_physical(logical, pixel_ratio) ==
    [min_width |-> to_physical_min(Scaled(logical.min_width, pixel_ratio)),
     min_height |-> to_physical_min(Scaled(logical.min_height, pixel_ratio)),
     max_width |-> to_physical_max(Scaled(logical.max_width, pixel_ratio)),
     max_height |-> to_physical_max(Scaled(logical.max_height, pixel_ratio))]

\* i32::MAX
I32_MAX == 2147483647

\* LogicalSizeConstraints::to_wayland_constraints::normalize of an f64 that
\* f64::ceil or f64::floor has rounded to r: the value when it is finite, not
\* negative and at most i32::MAX
to_wayland_normalize(x, r) ==
    IF x.k # "fin" THEN None
    ELSE IF r >= 0 /\ r <= I32_MAX THEN Some(r) ELSE None

\* LogicalSizeConstraints::to_wayland_constraints::min
to_wayland_min(x) == unwrap_or(to_wayland_normalize(x, CeilDiv(x.h, 2)), 0)

\* LogicalSizeConstraints::to_wayland_constraints::max
to_wayland_max(x) == unwrap_or(to_wayland_normalize(x, FloorDiv(x.h, 2)), 0)

\* LogicalSizeConstraints::to_wayland_constraints
to_wayland_constraints(logical) ==
    LET min_width == to_wayland_min(logical.min_width)
        min_height == to_wayland_min(logical.min_height)
        max_width == to_wayland_max(logical.max_width)
        max_height == to_wayland_max(logical.max_height)
    IN IF min_width > max_width \/ min_height > max_height
       THEN None
       ELSE Some(<<min_width, min_height, max_width, max_height>>)

\* the size hints UpdateViewConstraints::run submits to the compositor for
\* the constraints of a request
size_hints(constraints) ==
    LET c == to_wayland_constraints(constraints) IN
    IF c = None THEN <<>>
    ELSE <<[op |-> "set_min_size", width |-> c[1][1], height |-> c[1][2]],
           [op |-> "set_max_size", width |-> c[1][3], height |-> c[1][4]]>>

\* u32::clamp asserts min <= max and panics otherwise
ClampPanics(c) == c.min_width > c.max_width \/ c.min_height > c.max_height

clamp(x, lo, hi) == IF x < lo THEN lo ELSE IF x > hi THEN hi ELSE x

\* a variant of constrain_physical_size that leaves the size as it is
constrain_physical_size_unclamped(c, size) == size

\* PhysicalSizeConstraints::constrain_physical_size (a size is <<width, height>>)
constrain_physical_size(c, size) ==
    <<clamp(size[1], c.min_width, c.max_width),
      clamp(size[2], c.min_height, c.max_height)>>

\* a variant of SurfaceData::new that marks no surface as mapped
NewSurfaceData_unmapped(view_id, kind) ==
    [view_id |-> view_id,
     kind |-> kind,
     destroyed |-> FALSE,
     scale_factor |-> ScaleDen,
     was_mapped |-> FALSE,
     previous_size |-> None,
     logical_size_constraints |-> None,
     waiting_for_frame |-> FALSE,
     attached |-> 0,
     committed |-> 0,
     callbacks |-> 0]

\* SurfaceData::new / SurfaceData::for_view, with the shell role of the surface
NewSurfaceData(view_id, kind) ==
    [view_id |-> view_id,
     kind |-> kind,
     destroyed |-> FALSE,
     scale_factor |-> ScaleDen,
     was_mapped |-> (view_id = IMPLICIT),
     previous_size |-> None,
     logical_size_constraints |-> None,
     waiting_for_frame |-> FALSE,
     attached |-> 0,
     committed |-> 0,
     callbacks |-> 0]

\* SurfaceData::physical_size_constraints
physical_size_constraints(sd) ==
    IF sd.logical_size_constraints = None THEN None
    ELSE Some(to_physical(sd.logical_size_constraints[1], sd.scale_factor))

\* the size set_physical_size goes on with, after the constraints are applied
ConstrainedSize(sd, size) ==
    IF physical_size_constraints(sd) = None THEN size
    ELSE constrain_physical_size(physical_size_constraints(sd)[1], size)

\* the WindowMetricsEvent of set_physical_size
Metrics(sd, size) ==
    [view_id |-> sd.view_id, size |-> size, pixel_ratio |-> sd.scale_factor]

\* a variant of set_physical_size that never looks at was_mapped and always
\* asks the engine to add the view
set_physical_size_always_add(sd, h, size) ==
    [sd |-> [sd EXCEPT !.was_mapped = TRUE, !.previous_size = Some(ConstrainedSize(sd, size))],
     calls |-> <<[op |-> "add_view", surface |-> h,
                  metrics |-> Metrics(sd, ConstrainedSize(sd, size))]>>,
     panic |-> FALSE]

\* SurfaceData::set_physical_size on the surface with handle h.  The result is
\* the surface afterwards, the engine calls made, and whether the call panicked.
set_physical_size(sd, h, size) ==
    IF physical_size_constraints(sd) # None
       /\ ClampPanics(physical_size_constraints(sd)[1])
    THEN [sd |-> sd, calls |-> <<>>, panic |-> TRUE]
    ELSE LET sz == ConstrainedSize(sd, size) IN
         IF sd.previous_size = Some(sz)
         THEN [sd |-> sd, calls |-> <<>>, panic |-> FALSE]
         ELSE [sd |-> [sd EXCEPT !.was_mapped = TRUE, !.previous_size = Some(sz)],
               calls |-> IF sd.was_mapped
                         THEN <<[op |-> "send_window_metrics_event", surface |-> h,
                                 metrics |-> Metrics(sd, sz)]>>
                         ELSE <<[op |-> "add_view", surface |-> h,
                                 metrics |-> Metrics(sd, sz)]>>,
               panic |-> FALSE]

\* a variant of set_logical_size_constraints without the early return: it
\* reapplies the last size whether or not the constraints are new
set_logical_size_constraints_always_reapply(sd, h, constraints) ==
    LET stored == [sd EXCEPT !.logical_size_constraints = Some(constraints)] IN
    IF stored.previous_size # None
    THEN set_physical_size(stored, h, stored.previous_size[1])
    ELSE [sd |-> stored, calls |-> <<>>, panic |-> FALSE]

\* SurfaceData::set_logical_size_constraints
set_logical_size_constraints(sd, h, constraints) ==
    LET stored == [sd EXCEPT !.logical_size_constraints = Some(constraints)] IN
    IF sd.logical_size_constraints = Some(constraints)
    THEN [sd |-> stored, calls |-> <<>>, panic |-> FALSE]
    ELSE IF stored.previous_size # None
         THEN set_physical_size(stored, h, stored.previous_size[1])
         ELSE [sd |-> stored, calls |-> <<>>, panic |-> FALSE]

(***************************************************************************)
(* The state of the running program.                                       *)
(***************************************************************************)
VARIABLES
    delivered,      \* platform messages delivered so far; message i holds response handle i
    responses,      \* responses[i]: the payloads sent on response handle i, in order
    chan,           \* the EmbedderMessage channel (embedder.rs), in send order
    events,         \* the NellyEvent channel (nelly.rs), in send order
    views,          \* the view registry: ViewId -> handle of the registered surface
    surfaces,       \* every surface created so far, by handle
    VIEW_ID,        \* the static ViewIdCounter of each Create::run
    pendingAdd,     \* surfaces whose add_view completion the engine still owes
    pendingRemove,  \* pendingRemove[v]: remove_view completions the engine still owes for v
    loop,           \* the event loop: "running", "stopping", "stopped" or "panicked"
    buffers,        \* NellyCompositor::buffers: allocation address -> wl_buffer
    wl_buffers,     \* every wl_buffer created so far (with its BufferBacking), by handle
    stores,         \* every backing store create_backing_store has returned to the engine
    timers,         \* the timer sources the event loop holds for posted tasks
    last,           \* the step taken last: callback or handler, its thread, what it did
    callers,        \* the threads inside next_view_id of one shared ViewIdCounter
    applied,        \* the function applied on its own: its input, and its output once computed
    sent,           \* the engine-bound events sent with PlatformEvent::send, in send order
    tasks,          \* the tasks posted through TaskRunner::post_task, in send order
    now             \* the time, on the engine's clock and on Instant alike

vars == <<delivered, responses, chan, events, views, surfaces, VIEW_ID,
          pendingAdd, pendingRemove, loop, buffers, wl_buffers, stores, timers, last,
          callers, applied, sent, tasks, now>>

\* the state of the units that are exercised on their own, and the
\* engine-bound events, which no handler or callback other than their own
\* touches
unitVars == <<callers, applied, sent, tasks, now>>

\* no thread is inside next_view_id
NoCallers == [pc |-> <<>>, returned |-> <<>>, start |-> 1]

\* no function is applied on its own
NotApplied == [op |-> "none", input |-> <<>>, output |-> <<>>, done |-> FALSE]

\* the state of the compositor callbacks and of the posted tasks
compositorVars == <<buffers, wl_buffers, stores, timers>>

\* the view ids a payload of the model names
ViewIdSamples == 0..(MaxSurfaces - 1)

NoWire == [channel |-> "", payload |-> <<>>]

Step(op, thread, touched, calls, msg, result, wire) ==
    [op |-> op, thread |-> thread, touched |-> touched, calls |-> calls,
     msg |-> msg, result |-> result, wire |-> wire, surface |-> 0, wakeup |-> FALSE,
     layers |-> <<>>, config |-> <<>>, wl |-> <<>>]

\* a step that ended with signal.wakeup(), the explicit wake-up of the event loop
Woken(step) == [step EXCEPT !.wakeup = TRUE]

\* a step of a handler or callback that belongs to the surface with handle h
SurfaceStep(op, thread, touched, calls, result, h) ==
    [Step(op, thread, touched, calls, 0, result, NoWire) EXCEPT !.surface = h]

\* the process has not ended (by a panic, or by the event loop returning)
Alive == loop \in {"running", "stopping"}

(***************************************************************************)
(* ViewIdCounter: src/src/platform_message/mod.rs                          *)
(***************************************************************************)
\* i64::MAX and i64::MIN, in the integer range of the checker
I64_MAX == 2^30 - 1

I64_MIN == -(2^30)

wrapping_add1(x) == IF x = I64_MAX THEN I64_MIN ELSE x + 1

\* ViewIdCounter::next_view_id on a counter holding serial: the id returned
\* and the counter afterwards
next_view_id(serial) ==
    LET s1 == IF serial = 0 THEN 1 ELSE serial IN
    [id |-> s1, serial |-> wrapping_add1(s1)]

(***************************************************************************)
(* The view registry: HashMap<ViewId, FlutterWaylandSurface>               *)
(***************************************************************************)
Registered(vs, v) == v \in DOMAIN vs

\* HashMap::insert
MapInsert(vs, v, h) == [x \in DOMAIN vs \cup {v} |-> IF x = v THEN h ELSE vs[x]]

\* HashMap::remove
MapRemove(vs, v) == [x \in DOMAIN vs \ {v} |-> vs[x]]

\* dropping the FlutterWaylandSurface of handle h destroys its surface (Drop for Surface)
DropSurface(ss, h) == [ss EXCEPT ![h].destroyed = TRUE]

\* views.insert(view_id, surface): a value already stored under the key is dropped
InsertView(S, v, sd) ==
    LET h == Len(S.surfaces) + 1
        ss == Append(S.surfaces, sd)
    IN [S EXCEPT !.surfaces = IF Registered(S.views, v) THEN DropSurface(ss, S.views[v]) ELSE ss,
                 !.views = MapInsert(S.views, v, h)]

\* views.get(&view_id) narrowed to one FlutterWaylandSurface variant
Lookup(S, v, kind) ==
    IF Registered(S.views, v) /\ S.surfaces[S.views[v]].kind = kind
    THEN Some(S.views[v]) ELSE None

(***************************************************************************)
(* PlatformRequest::run of every request type.  S is the session (the      *)
(* fields of Nelly and the engine's pending completions).  The result is   *)
(* the session afterwards, the engine calls made, and res: the bytes       *)
(* written (ok), an io::Error (not ok), or a panic.                        *)
(***************************************************************************)
RunOk(S, calls, bytes) ==
    [S |-> S, calls |-> calls, res |-> [ok |-> TRUE, bytes |-> bytes], wl |-> <<>>]

RunErr(S, calls) == [S |-> S, calls |-> calls, res |-> Err("Other"), wl |-> <<>>]

RunPanic(S, what) == [S |-> S, calls |-> <<>>, res |-> Panic(what), wl |-> <<>>]

\* shutdown::Shutdown::run
run_Shutdown(S) == RunOk([S EXCEPT !.loop = "stopping"], <<>>, <<>>)

\* xdg_toplevel::Create::run, with its own static VIEW_ID
run_XdgToplevelCreate(S) ==
    LET n == next_view_id(S.VIEW_ID.xdg_toplevel)
        S1 == [S EXCEPT !.VIEW_ID.xdg_toplevel = n.serial]
    IN RunOk(InsertView(S1, n.id, NewSurfaceData(n.id, "XdgToplevel")), <<>>, I64Bytes(n.id))

\* a variant of wlr_layer::Create::run that registers the new surface as a
\* toplevel
run_WlrLayerCreate_as_toplevel(S) ==
    LET n == next_view_id(S.VIEW_ID.wlr_layer)
        S1 == [S EXCEPT !.VIEW_ID.wlr_layer = n.serial]
    IN RunOk(InsertView(S1, n.id, NewSurfaceData(n.id, "XdgToplevel")), <<>>, I64Bytes(n.id))

\* wlr_layer::Create::run, with its own static VIEW_ID
run_WlrLayerCreate(S) ==
    LET n == next_view_id(S.VIEW_ID.wlr_layer)
        S1 == [S EXCEPT !.VIEW_ID.wlr_layer = n.serial]
    IN RunOk(InsertView(S1, n.id, NewSurfaceData(n.id, "WlrLayer")), <<>>, I64Bytes(n.id))

\* xdg_toplevel::InitialCommit::run
run_XdgToplevelInitialCommit(S, req) ==
    IF Lookup(S, req.view_id, "XdgToplevel") = None
    THEN RunPanic(S, "xdg_toplevel_initial_commit: view_id not found")
    ELSE RunOk(S, <<>>, <<>>)

\* a variant of xdg_toplevel::Update::run that reports a view it cannot find
\* as an error of the request
run_XdgToplevelUpdate_recoverable(S, req) ==
    IF Lookup(S, req.view_id, "XdgToplevel") = None
    THEN RunErr(S, <<>>)
    ELSE RunOk(S, <<>>, <<>>)

\* xdg_toplevel::Update::run
run_XdgToplevelUpdate(S, req) ==
    IF Lookup(S, req.view_id, "XdgToplevel") = None
    THEN RunPanic(S, "update_xdg_toplevel: view_id not found")
    ELSE RunOk(S, <<>>, <<>>)

\* wlr_layer::Update::run
run_WlrLayerUpdate(S, req) ==
    IF Lookup(S, req.view_id, "WlrLayer") = None
    THEN RunPanic(S, "wlr_layer/update: view_id not found")
    ELSE RunOk(S, <<>>, <<>>)

\* the surfaces an engine call list asks the engine to add
Added(calls) == {calls[i].surface : i \in {j \in 1..Len(calls) : calls[j].op = "add_view"}}

\* xdg_toplevel::UpdateViewConstraints::run
run_XdgToplevelUpdateViewConstraints(S, req) ==
    IF Lookup(S, req.view_id, "XdgToplevel") = None
    THEN RunPanic(S, "update_xdg_toplevel_view_constraints: view_id not found")
    ELSE LET h == S.views[req.view_id]
             r == set_logical_size_constraints(S.surfaces[h], h, req.constraints)
             wl == size_hints(req.constraints)
         IN IF r.panic
            THEN [RunPanic(S, "assertion failed: min <= max") EXCEPT !.wl = wl]
            ELSE [RunOk([S EXCEPT !.surfaces[h] = r.sd,
                                  !.pendingAdd = @ \cup Added(r.calls)],
                        r.calls, <<>>) EXCEPT !.wl = wl]

\* Nelly::remove_view: asks the engine to remove the view; the engine's
\* completion later sends NellyEvent::ViewRemoved.  The engine accepts the
\* request or refuses it with an error.
remove_view(S, view_id, accept) ==
    IF accept
    THEN RunOk([S EXCEPT !.pendingRemove[view_id] = @ + 1],
               <<[op |-> "remove_view", view_id |-> view_id]>>, <<>>)
    ELSE RunErr(S, <<>>)

\* xdg_toplevel::Remove::run
run_XdgToplevelRemove(S, req, accept) == remove_view(S, req.view_id, accept)

\* wlr_layer::Remove::run
run_WlrLayerRemove(S, req, accept) == remove_view(S, req.view_id, accept)

\* AnyPlatformRequest::_run
_run(S, req, accept) ==
    CASE req.type = "Shutdown" -> run_Shutdown(S)
      [] req.type = "XdgToplevelCreate" -> run_XdgToplevelCreate(S)
      [] req.type = "XdgToplevelInitialCommit" -> run_XdgToplevelInitialCommit(S, req)
      [] req.type = "XdgToplevelUpdate" -> run_XdgToplevelUpdate(S, req)
      [] req.type = "XdgToplevelUpdateViewConstraints" ->
            run_XdgToplevelUpdateViewConstraints(S, req)
      [] req.type = "XdgToplevelRemove" -> run_XdgToplevelRemove(S, req, accept)
      [] req.type = "WlrLayerCreate" -> run_WlrLayerCreate(S)
      [] req.type = "WlrLayerUpdate" -> run_WlrLayerUpdate(S, req)
      [] req.type = "WlrLayerRemove" -> run_WlrLayerRemove(S, req, accept)

\* AnyPlatformRequest::run: the bytes of the writer are returned only on success
run(S, req, accept) ==
    LET r == _run(S, req, accept) IN
    IF r.res.ok \/ IsPanic(r.res) THEN r
    ELSE [r EXCEPT !.res = Err("Other")]

(***************************************************************************)
(* Engine callbacks and event loop dispatch: src/src/embedder.rs,          *)
(* src/src/nelly.rs                                                        *)
(***************************************************************************)
Session ==
    [views |-> views, surfaces |-> surfaces, VIEW_ID |-> VIEW_ID,
     pendingAdd |-> pendingAdd, pendingRemove |-> pendingRemove, loop |-> loop]

IsCreate(req) == req.type \in {"XdgToplevelCreate", "WlrLayerCreate"}

\* create requests waiting on the channel
QueuedCreates ==
    Cardinality({i \in 1..Len(chan) :
                    chan[i].type = "PlatformMessage" /\ IsCreate(chan[i].req)})

\* Handler::platform_message, the channel afterwards: a decoded request is
\* sent on it together with the response handle
platform_message_chan(ch, d, id) ==
    IF d.ok THEN Append(ch, [type |-> "PlatformMessage", req |-> d.val, response |-> id])
    ELSE ch

\* a variant of platform_message_responses that stays silent when decoding failed
platform_message_responses_silent(d) == <<>>

\* Handler::platform_message, the responses it sends itself: an empty one
\* when decoding failed
platform_message_responses(d) == IF d.ok THEN <<>> ELSE << <<>> >>

\* a variant of platform_message_wakeup that wakes the loop only for a message
\* that was put on the channel
platform_message_wakeup_on_send(d) == d.ok

\* Handler::platform_message: self.signal.wakeup() follows the match on the
\* decode result, whichever arm was taken
platform_message_wakeup(d) == ~IsPanic(d)

\* Handler::platform_message, called by the engine on one of its threads
platform_message(w) ==
    /\ Alive
    /\ delivered < MaxMsgs
    /\ \E id \in {delivered + 1}, d \in {decode(w.channel, w.payload)} :
          /\ d.ok /\ IsCreate(d.val) => Len(surfaces) + QueuedCreates < MaxSurfaces
          /\ delivered' = id
          /\ IF IsPanic(d)
             THEN /\ loop' = "panicked"
                  /\ UNCHANGED <<chan, responses>>
             ELSE /\ chan' = platform_message_chan(chan, d, id)
                  /\ responses' = [responses EXCEPT ![id] = @ \o platform_message_responses(d)]
                  /\ loop' = loop
          /\ last' = [Step("platform_message", "engine", {}, <<>>, id,
                           IF d.ok THEN "queued"
                           ELSE IF IsPanic(d) THEN "panic" ELSE "decode_err",
                           w) EXCEPT !.wakeup = platform_message_wakeup(d)]
    /\ UNCHANGED <<events, views, surfaces, VIEW_ID, pendingAdd, pendingRemove>>
    /\ UNCHANGED compositorVars
    /\ UNCHANGED unitVars

\* a variant of PlatformMessageResponses that drops the exchange when run failed
PlatformMessageResponses_dropped(res) ==
    IF res.ok THEN <<res.bytes>> ELSE <<>>

\* the responses the dispatch of a platform message sends for the result of run
PlatformMessageResponses(res) ==
    IF res.ok THEN <<res.bytes>> ELSE << <<>> >>

\* init: the EmbedderMessage::PlatformMessage arm of the channel's callback,
\* run by the event loop on the platform thread
DispatchPlatformMessage ==
    /\ Alive
    /\ chan # <<>>
    /\ Head(chan).type = "PlatformMessage"
    /\ \E accept \in BOOLEAN, m \in {Head(chan)} :
        \E r \in {run(Session, m.req, accept)} :
          /\ chan' = Tail(chan)
          /\ views' = r.S.views
          /\ surfaces' = r.S.surfaces
          /\ VIEW_ID' = r.S.VIEW_ID
          /\ pendingAdd' = r.S.pendingAdd
          /\ pendingRemove' = r.S.pendingRemove
          /\ IF IsPanic(r.res)
             THEN /\ loop' = "panicked"
                  /\ responses' = responses
             ELSE /\ loop' = r.S.loop
                  /\ responses' = [responses EXCEPT
                                      ![m.response] = @ \o PlatformMessageResponses(r.res)]
          /\ last' = [Step("dispatch_platform_message", "platform",
                           {"views", "surfaces", "proxies"}, r.calls, m.response,
                           IF r.res.ok THEN "ok" ELSE IF IsPanic(r.res) THEN "panic" ELSE "err",
                           NoWire) EXCEPT !.wl = r.wl]
    /\ UNCHANGED <<delivered, events>>
    /\ UNCHANGED compositorVars
    /\ UNCHANGED unitVars

\* the completion callback Nelly::remove_view hands to the engine, called by
\* the engine on one of its threads: it sends NellyEvent::ViewRemoved
RemoveViewDone(v) ==
    /\ Alive
    /\ pendingRemove[v] > 0
    /\ pendingRemove' = [pendingRemove EXCEPT ![v] = @ - 1]
    /\ events' = Append(events, [type |-> "ViewRemoved", view_id |-> v])
    /\ last' = Step("remove_view_callback", "engine", {}, <<>>, 0, "none", NoWire)
    /\ UNCHANGED <<delivered, responses, chan, views, surfaces, VIEW_ID, pendingAdd, loop>>
    /\ UNCHANGED compositorVars
    /\ UNCHANGED unitVars

\* the registry and the surfaces after the NellyEvent::ViewRemoved arm
ViewRemoved(S, v) ==
    IF Registered(S.views, v)
    THEN [S EXCEPT !.views = MapRemove(S.views, v),
                   !.surfaces = DropSurface(S.surfaces, S.views[v])]
    ELSE S

\* Nelly::new: the NellyEvent::ViewRemoved arm of the event channel's callback
DispatchViewRemoved ==
    /\ Alive
    /\ events # <<>>
    /\ Head(events).type = "ViewRemoved"
    /\ \E S1 \in {ViewRemoved(Session, Head(events).view_id)} :
          /\ views' = S1.views
          /\ surfaces' = S1.surfaces
    /\ events' = Tail(events)
    /\ last' = Step("dispatch_view_removed", "platform", {"views", "surfaces"}, <<>>, 0,
                    "none", NoWire)
    /\ UNCHANGED <<delivered, responses, chan, VIEW_ID, pendingAdd, pendingRemove, loop>>
    /\ UNCHANGED compositorVars
    /\ UNCHANGED unitVars

\* lib.rs run: event_loop.run returns once LoopSignal::stop has been called
\* and the iteration that called it is over
LoopExit ==
    /\ loop = "stopping"
    /\ loop' = "stopped"
    /\ last' = Step("loop_exit", "platform", {}, <<>>, 0, "none", NoWire)
    /\ UNCHANGED <<delivered, responses, chan, events, views, surfaces, VIEW_ID,
                   pendingAdd, pendingRemove>>
    /\ UNCHANGED compositorVars
    /\ UNCHANGED unitVars

(***************************************************************************)
(* The messages the engine delivers in the model: channel and payload.     *)
(***************************************************************************)
Msg(channel, payload) == [channel |-> channel, payload |-> payload]

\* well-formed messages
GoodWire ==
    { Msg("nelly/graceful_shutdown", <<>>),
      Msg("wayland/xdg_toplevel/create", <<>>),
      Msg("wayland/wlr_layer/create", <<2>> \o write_string(<<110>>)) }
    \cup { Msg("wayland/xdg_toplevel/update", I64Bytes(v) \o write_string(<<110>>) \o write_string(<<>>))
           : v \in {1} }
    \cup { Msg("wayland/xdg_toplevel/remove", I64Bytes(v)) : v \in {0, 1} }
    \cup { Msg("wayland/wlr_layer/remove", I64Bytes(v)) : v \in {1} }
    \cup { Msg("wayland/xdg_toplevel/initial_commit", I64Bytes(1)),
           Msg("wayland/xdg_toplevel/update_view_constraints",
               I64Bytes(1) \o F64Bytes(Fin(2)) \o F64Bytes(Fin(2))
                           \o F64Bytes(Fin(8)) \o F64Bytes(Fin(8))),
           Msg("wayland/wlr_layer/update",
               I64Bytes(1) \o U32Bytes(3) \o U32Bytes(4) \o U32Bytes(5)) }

\* messages whose decoding fails: an unknown channel, channel names that are
\* a prefix of a known one, a known one with more behind it, a known one in
\* another case, a truncated payload, trailing bytes, an invalid field value
BadWire ==
    { Msg("flutter/navigation", <<1, 2>>),
      Msg("wayland/xdg_toplevel/creat", <<>>),
      Msg("wayland/xdg_toplevel/create/", <<>>),
      Msg("Nelly/graceful_shutdown", <<>>),
      Msg("wayland/xdg_toplevel/remove", <<1, 0, 0, 0, 0, 0, 0>>),
      Msg("wayland/xdg_toplevel/create", <<0>>),
      Msg("wayland/wlr_layer/create", <<4>> \o write_string(<<>>)) }

\* a string whose length prefix has the top bit set
HugeWire == { Msg("wayland/wlr_layer/create", <<2, 0, 0, 0, 0, 0, 0, 0, 128>>) }

Wire == GoodWire \cup BadWire \cup HugeWire

(***************************************************************************)
(* The platform message pipeline and the view registry.                    *)
(***************************************************************************)
\* Nelly::new: the implicit view is a toplevel registered under ViewId::IMPLICIT
Init ==
    /\ delivered = 0
    /\ responses = [i \in 1..MaxMsgs |-> <<>>]
    /\ chan = <<>>
    /\ events = <<>>
    /\ views = [v \in {IMPLICIT} |-> 1]
    /\ surfaces = <<NewSurfaceData(IMPLICIT, "XdgToplevel")>>
    /\ VIEW_ID = [xdg_toplevel |-> 1, wlr_layer |-> 1]
    /\ pendingAdd = {}
    /\ pendingRemove = [v \in ViewIdSamples |-> 0]
    /\ loop = "running"
    /\ buffers = <<>>
    /\ wl_buffers = <<>>
    /\ stores = <<>>
    /\ timers = 0
    /\ last = Step("init", "platform", {}, <<>>, 0, "none", NoWire)
    /\ callers = NoCallers
    /\ applied = NotApplied
    /\ sent = <<>>
    /\ tasks = <<>>
    /\ now = 0

DeliverPlatformMessage == \E w \in Wire : platform_message(w)

EngineRemoveViewDone == \E v \in ViewIdSamples : RemoveViewDone(v)

Next ==
    \/ DeliverPlatformMessage
    \/ DispatchPlatformMessage
    \/ EngineRemoveViewDone
    \/ DispatchViewRemoved
    \/ LoopExit

Spec == Init /\ [][Next]_vars

\* Spec with the event loop running: a ready source is dispatched, and
\* event_loop.run returns once it finds the stop flag set
FairSpec ==
    /\ Spec
    /\ WF_vars(DispatchPlatformMessage)
    /\ WF_vars(DispatchViewRemoved)
    /\ WF_vars(LoopExit)

(***************************************************************************)
(* Size negotiation: src/src/handlers.rs, src/src/shell/compositor.rs      *)
(***************************************************************************)
\* the greatest width or height a configure of the model asks for
MaxDim == 1500

\* f64::round of a / b for a >= 0, b > 0: halves round away from zero
Round(a, b) == (2 * a + b) \div (2 * b)

\* WindowHandler::configure: the physical size it computes from the size the
\* compositor suggests (each dimension optional) and the surface's scale
configure_size(sd, new_size) ==
    <<Round(unwrap_or(new_size[1], unwrap_or(sd.previous_size, <<800, 600>>)[1])
                * sd.scale_factor, ScaleDen),
      Round(unwrap_or(new_size[2], unwrap_or(sd.previous_size, <<800, 600>>)[2])
                * sd.scale_factor, ScaleDen)>>

\* the surfaces with an xdg_toplevel role that are still alive
Toplevels ==
    {h \in 1..Len(surfaces) : surfaces[h].kind = "XdgToplevel" /\ ~surfaces[h].destroyed}

\* WindowHandler::configure for Nelly, dispatched by the event loop on the
\* platform thread for the toplevel with handle h
configure(h, new_size) ==
    /\ loop = "running"
    /\ h \in Toplevels
    /\ \E size \in {configure_size(surfaces[h], new_size)} :
          /\ size[1] <= MaxDim
          /\ size[2] <= MaxDim
          /\ \E r \in {set_physical_size(surfaces[h], h, size)} :
                IF r.panic
                THEN /\ loop' = "panicked"
                     /\ UNCHANGED <<surfaces, pendingAdd>>
                     /\ last' = [SurfaceStep("configure", "platform", {"surfaces"}, <<>>,
                                             "panic", h)
                                 EXCEPT !.config = new_size]
                ELSE /\ loop' = loop
                     /\ surfaces' = [surfaces EXCEPT ![h] = r.sd]
                     /\ pendingAdd' = pendingAdd \cup Added(r.calls)
                     /\ last' = [SurfaceStep("configure", "platform", {"surfaces"}, r.calls,
                                             "ok", h)
                                 EXCEPT !.config = new_size]
    /\ UNCHANGED <<delivered, responses, chan, events, views, VIEW_ID, pendingRemove>>
    /\ UNCHANGED compositorVars
    /\ UNCHANGED unitVars

\* a variant of the PreferredScale arm that re-applies the last size under the
\* new scale
PreferredScale_reapplying(h, scale) ==
    /\ loop = "running"
    /\ h \in 1..Len(surfaces)
    /\ ~surfaces[h].destroyed
    /\ surfaces[h].scale_factor # scale
    /\ \E sd \in {[surfaces[h] EXCEPT !.scale_factor = scale]} :
          \E r \in {IF sd.previous_size = None \/ set_physical_size(sd, h, sd.previous_size[1]).panic
                     THEN [sd |-> sd, calls |-> <<>>, panic |-> FALSE]
                     ELSE set_physical_size(sd, h, sd.previous_size[1])} :
              /\ surfaces' = [surfaces EXCEPT ![h] = r.sd]
              /\ pendingAdd' = pendingAdd \cup Added(r.calls)
              /\ last' = SurfaceStep("preferred_scale", "platform", {"surfaces"}, r.calls, "ok", h)
    /\ UNCHANGED <<delivered, responses, chan, events, views, VIEW_ID, pendingRemove, loop>>
    /\ UNCHANGED compositorVars
    /\ UNCHANGED unitVars

\* Dispatch<WpFractionalScaleV1, SurfaceData>::event, PreferredScale: the
\* scale is stored, nothing is sent to the engine
PreferredScale(h, scale) ==
    /\ loop = "running"
    /\ h \in 1..Len(surfaces)
    /\ ~surfaces[h].destroyed
    /\ surfaces[h].scale_factor # scale
    /\ surfaces' = [surfaces EXCEPT ![h].scale_factor = scale]
    /\ last' = SurfaceStep("preferred_scale", "platform", {"surfaces"}, <<>>, "ok", h)
    /\ UNCHANGED <<delivered, responses, chan, events, views, VIEW_ID, pendingAdd,
                   pendingRemove, loop>>
    /\ UNCHANGED compositorVars
    /\ UNCHANGED unitVars

\* a variant of the add_view completion that puts the view back on success
AddViewDone_reinserting(h, success) ==
    /\ Alive
    /\ h \in pendingAdd
    /\ pendingAdd' = pendingAdd \ {h}
    /\ surfaces' = IF success THEN surfaces ELSE [surfaces EXCEPT ![h].was_mapped = FALSE]
    /\ views' = IF success THEN MapInsert(views, surfaces[h].view_id, h) ELSE views
    /\ last' = SurfaceStep("add_view_callback", "engine",
                           IF success THEN {"views"} ELSE {"surfaces"}, <<>>,
                           IF success THEN "ok" ELSE "err", h)
    /\ UNCHANGED <<delivered, responses, chan, events, VIEW_ID, pendingRemove, loop>>
    /\ UNCHANGED compositorVars
    /\ UNCHANGED unitVars

\* the completion callback set_physical_size hands to add_view, called by the
\* engine on one of its threads: a failure stores false in was_mapped
AddViewDone(h, success) ==
    /\ Alive
    /\ h \in pendingAdd
    /\ pendingAdd' = pendingAdd \ {h}
    /\ surfaces' = IF success THEN surfaces ELSE [surfaces EXCEPT ![h].was_mapped = FALSE]
    /\ last' = SurfaceStep("add_view_callback", "engine",
                           IF success THEN {} ELSE {"surfaces"}, <<>>,
                           IF success THEN "ok" ELSE "err", h)
    /\ UNCHANGED <<delivered, responses, chan, events, views, VIEW_ID, pendingRemove, loop>>
    /\ UNCHANGED compositorVars
    /\ UNCHANGED unitVars

\* the sizes a configure event suggests; a dimension may be left to the client
ConfigureSizes ==
    { <<None, None>>, <<Some(1000), Some(700)>>, <<Some(3), None>> }

\* the views whose surfaces the compositor configures and rescales in the model
ConfiguredViews == {1}

LogicalConstraints(a, b, c, d) ==
    [min_width |-> a, min_height |-> b, max_width |-> c, max_height |-> d]

\* the constraints the requests of the model carry: none in effect, a box, a
\* box with fractional sides, a minimum above the maximum, a NaN
ConstraintSamples ==
    { LogicalConstraints(Fin(0), Fin(0), PosInf, PosInf),
      LogicalConstraints(Fin(2), Fin(2), Fin(8), Fin(8)),
      LogicalConstraints(Fin(3), Fin(3), Fin(5), Fin(5)),
      LogicalConstraints(Fin(8), Fin(8), Fin(2), Fin(2)),
      LogicalConstraints(NaN, Fin(0), Fin(8), NegInf) }

ConstraintsBytes(c) ==
    F64Bytes(c.min_width) \o F64Bytes(c.min_height) \o
    F64Bytes(c.max_width) \o F64Bytes(c.max_height)

\* wayland/xdg_toplevel/update_view_constraints messages for the created view
ConstraintWire ==
    { Msg("wayland/xdg_toplevel/update_view_constraints", I64Bytes(1) \o ConstraintsBytes(c))
      : c \in ConstraintSamples }

\* The state Spec is in once one wayland/xdg_toplevel/create has been
\* delivered and dispatched: the implicit view and view 1, neither sized yet.
InitSize ==
    /\ delivered = 1
    /\ responses = [i \in 1..MaxMsgs |-> IF i = 1 THEN <<I64Bytes(1)>> ELSE <<>>]
    /\ chan = <<>>
    /\ events = <<>>
    /\ views = [v \in {IMPLICIT, 1} |-> v + 1]
    /\ surfaces = <<NewSurfaceData(IMPLICIT, "XdgToplevel"), NewSurfaceData(1, "XdgToplevel")>>
    /\ VIEW_ID = [xdg_toplevel |-> 2, wlr_layer |-> 1]
    /\ pendingAdd = {}
    /\ pendingRemove = [v \in ViewIdSamples |-> 0]
    /\ loop = "running"
    /\ buffers = <<>>
    /\ wl_buffers = <<>>
    /\ stores = <<>>
    /\ timers = 0
    /\ last = Step("dispatch_platform_message", "platform", {"views", "surfaces", "proxies"},
                   <<>>, 1, "ok", NoWire)
    /\ callers = NoCallers
    /\ applied = NotApplied
    /\ sent = <<>>
    /\ tasks = <<>>
    /\ now = 0

Configure ==
    \E v \in ConfiguredViews \cap DOMAIN views, new_size \in ConfigureSizes :
        configure(views[v], new_size)

ScaleChange ==
    \E v \in ConfiguredViews \cap DOMAIN views, scale \in Scales :
        PreferredScale(views[v], scale)

DeliverConstraints == \E w \in ConstraintWire : platform_message(w)

EngineAddViewDone == \E h \in 1..Len(surfaces), success \in BOOLEAN : AddViewDone(h, success)

NextSize ==
    \/ Configure
    \/ ScaleChange
    \/ DeliverConstraints
    \/ DispatchPlatformMessage
    \/ EngineAddViewDone

SpecSize == InitSize /\ [][NextSize]_vars

(***************************************************************************)
(* The engine's other callbacks and what the event loop does with them:    *)
(* src/src/embedder.rs, src/src/pool.rs, src/src/shell/mod.rs,             *)
(* src/src/handlers.rs                                                     *)
(***************************************************************************)
\* the most vsync and task messages that wait on the channel, the most tasks
\* posted and not run yet, and the most frame events that wait on the event
\* channel
MaxQueued == 1

\* the most backing stores the engine asks for
MaxStores == 2

\* the addresses at which mmap places a mapping
Addresses == {1, 2}

\* a variant of vsync_chan that sends nothing
vsync_chan_dropped(ch) == ch

\* Handler::vsync, the channel afterwards: the baton is sent on it
vsync_chan(ch) == Append(ch, [type |-> "Vsync"])

\* Handler::vsync, called by the engine on one of its threads
vsync ==
    /\ Alive
    /\ Len(chan) < MaxQueued
    /\ chan' = vsync_chan(chan)
    /\ last' = Step("vsync", "engine", {}, <<>>, 0, "queued", NoWire)
    /\ UNCHANGED <<delivered, responses, events, views, surfaces, VIEW_ID, pendingAdd,
                   pendingRemove, loop>>
    /\ UNCHANGED compositorVars
    /\ UNCHANGED unitVars

\* init: the EmbedderMessage::Vsync arm of the channel's callback
DispatchVsync ==
    /\ Alive
    /\ chan # <<>>
    /\ Head(chan).type = "Vsync"
    /\ chan' = Tail(chan)
    /\ last' = Step("dispatch_vsync", "platform", {"engine"}, <<[op |-> "on_vsync"]>>, 0,
                    "ok", NoWire)
    /\ UNCHANGED <<delivered, responses, events, views, surfaces, VIEW_ID, pendingAdd,
                   pendingRemove, loop>>
    /\ UNCHANGED compositorVars
    /\ UNCHANGED unitVars

\* TaskRunner::post_task, called by the engine on one of its threads; the
\* deadline is now when the target time has passed already
post_task(in_future) ==
    /\ Alive
    /\ Len(chan) + timers < MaxQueued
    /\ chan' = Append(chan, [type |-> "Task",
                             deadline |-> IF in_future THEN "later" ELSE "now"])
    /\ last' = Step("post_task", "engine", {}, <<>>, 0, "queued", NoWire)
    /\ UNCHANGED <<delivered, responses, events, views, surfaces, VIEW_ID, pendingAdd,
                   pendingRemove, loop>>
    /\ UNCHANGED compositorVars
    /\ UNCHANGED unitVars

\* init: the EmbedderMessage::Task arm of the channel's callback inserts a
\* timer source for the deadline
DispatchTask ==
    /\ Alive
    /\ chan # <<>>
    /\ Head(chan).type = "Task"
    /\ chan' = Tail(chan)
    /\ timers' = timers + 1
    /\ last' = Step("dispatch_task", "platform", {"loop"}, <<>>, 0, "ok", NoWire)
    /\ UNCHANGED <<delivered, responses, events, views, surfaces, VIEW_ID, pendingAdd,
                   pendingRemove, loop, buffers, wl_buffers, stores>>
    /\ UNCHANGED unitVars

\* init: the callback of a task's timer source runs the task on the platform
\* thread and drops the source
TimerFires ==
    /\ Alive
    /\ timers > 0
    /\ timers' = timers - 1
    /\ last' = Step("run_task", "platform", {"engine"}, <<[op |-> "run_task"]>>, 0,
                    "ok", NoWire)
    /\ UNCHANGED <<delivered, responses, chan, events, views, surfaces, VIEW_ID, pendingAdd,
                   pendingRemove, loop, buffers, wl_buffers, stores>>
    /\ UNCHANGED unitVars

\* the wl_buffers the buffer registry holds a proxy of
Range(f) == {f[x] : x \in DOMAIN f}

\* a variant of MappedAddresses in which the proxies of the buffer registry do
\* not keep the BufferBacking alive
MappedAddresses_objects_only ==
    {wl_buffers[b].allocation : b \in {x \in 1..Len(wl_buffers) : ~wl_buffers[x].destroyed}}

\* The addresses with a live mapping.  The BufferBacking is shared by the
\* SinglePool (dropped when create_backing_store returns), the wl_buffer's
\* object data (dropped with the destroyed object) and every WlBuffer proxy.
MappedAddresses ==
    {wl_buffers[b].allocation :
        b \in {x \in 1..Len(wl_buffers) : ~wl_buffers[x].destroyed \/ x \in Range(buffers)}}

\* the width and height of a BackingStoreConfig pass the checks of
\* create_backing_store: no fractional part, no negative sign
PixelAligned(x) == x.k = "fin" /\ x.h % 2 = 0

\* a variant of SignNegative that lets every sign pass
SignNegative_never(x) == FALSE

SignNegative(x) == x.k = "ninf" \/ (x.k = "fin" /\ x.h < 0)

\* NellyCompositor::create_backing_store, called by the engine on its raster
\* thread.  pool is how SinglePool::new ends: "ok", or an error before
\* ("create") or after ("map") the wl_shm_pool was requested; a is the
\* address of the new mapping.
create_backing_store(width, height, pool, a) ==
    /\ Alive
    /\ IF ~PixelAligned(width) \/ ~PixelAligned(height)
          \/ SignNegative(width) \/ SignNegative(height)
       THEN /\ UNCHANGED <<buffers, wl_buffers, stores>>
            /\ last' = [Step("create_backing_store", "engine", {}, <<>>, 0, "none", NoWire)
                        EXCEPT !.config = <<width, height, "unused">>]
       ELSE IF pool = "create"
       THEN /\ UNCHANGED <<buffers, wl_buffers, stores>>
            /\ last' = [Step("create_backing_store", "engine", {}, <<>>, 0, "none", NoWire)
                        EXCEPT !.config = <<width, height, pool>>]
       ELSE IF pool = "map"
       THEN /\ UNCHANGED <<buffers, wl_buffers, stores>>
            /\ last' = [Step("create_backing_store", "engine", {"proxies"},
                             <<[op |-> "create_pool"]>>, 0, "none", NoWire)
                        EXCEPT !.config = <<width, height, pool>>]
       ELSE /\ Len(stores) < MaxStores
            /\ a \notin MappedAddresses
            /\ wl_buffers' = Append(wl_buffers,
                                    [allocation |-> a, busy |-> FALSE, destroyed |-> FALSE])
            /\ buffers' = MapInsert(buffers, a, Len(wl_buffers) + 1)
            /\ stores' = Append(stores, [allocation |-> a, collected |-> FALSE])
            /\ last' = [Woken(Step("create_backing_store", "engine", {"proxies"},
                                   <<[op |-> "create_pool"], [op |-> "create_buffer"],
                                     [op |-> "destroy_pool"]>>, 0, "some", NoWire))
                        EXCEPT !.config = <<width, height, pool>>]
    /\ UNCHANGED <<delivered, responses, chan, events, views, surfaces, VIEW_ID, pendingAdd,
                   pendingRemove, loop, timers>>
    /\ UNCHANGED unitVars

\* PixelFormat: the one pixel format of the software renderer, as the
\* volito::SoftwarePixelFormat written into every store create_backing_store returns
PixelFormat == "BGRA8888"

\* a BackingStore the engine passes back: a software store (one of ours when
\* it carries our pixel format), or a store of another type
SoftwareStoreOf(a, format) == [type |-> "Software", allocation |-> a, pixel_format |-> format]

SoftwareStore(a) == SoftwareStoreOf(a, PixelFormat)

ForeignStore == [type |-> "OpenGL", allocation |-> 0, pixel_format |-> "none"]

\* a variant of collect_backing_store_buffers that keeps the entry
collect_backing_store_buffers_kept(bs, store) == bs

\* NellyCompositor::collect_backing_store, the buffer registry afterwards
collect_backing_store_buffers(bs, store) ==
    IF store.type = "Software" THEN MapRemove(bs, store.allocation) ELSE bs

\* NellyCompositor::collect_backing_store, called by the engine on its raster
\* thread with backing store i of those it holds (0: a store of another type)
collect_backing_store(i) ==
    /\ Alive
    /\ i # 0 => ~stores[i].collected
    /\ \E store \in {IF i = 0 THEN ForeignStore ELSE SoftwareStore(stores[i].allocation)} :
          /\ buffers' = collect_backing_store_buffers(buffers, store)
          /\ last' = [Step("collect_backing_store", "engine", {}, <<>>, 0,
                           IF store.type = "Software" THEN "true" ELSE "false", NoWire)
                      EXCEPT !.wakeup = (store.type = "Software")]
    /\ stores' = IF i = 0 THEN stores ELSE [stores EXCEPT ![i].collected = TRUE]
    /\ UNCHANGED <<delivered, responses, chan, events, views, surfaces, VIEW_ID, pendingAdd,
                   pendingRemove, loop, wl_buffers, timers>>
    /\ UNCHANGED unitVars

\* a variant of RectAligned that looks at the origin of the rectangle only
RectAligned_origin_only(rect) == rect[1] % 2 = 0 /\ rect[2] % 2 = 0

\* a rectangle of a paint region is <<left, top, right, bottom>>, in halves
RectAligned(rect) == \A i \in 1..4 : rect[i] % 2 = 0

\* present_view: the damage_buffer requests sent before the first rectangle
\* that is not pixel aligned ends the call
RECURSIVE damage_calls(_)
damage_calls(regions) ==
    IF regions = <<>> \/ ~RectAligned(Head(regions)) THEN <<>>
    ELSE <<[op |-> "damage_buffer", rect |-> Head(regions)]>> \o damage_calls(Tail(regions))

\* a variant of present_view_outcome that presents the first layer of several
present_view_outcome_first_layer(view_id, layers) ==
    IF ~Registered(views, view_id) THEN "unknown_view"
    ELSE IF Len(layers) = 0 THEN "layer_count"
    ELSE IF layers[1].content # "BackingStore" THEN "platform_view"
    ELSE IF layers[1].store.type # "Software" THEN "not_software"
    ELSE IF layers[1].store.allocation \notin DOMAIN buffers THEN "unknown_store"
    ELSE "presented"

\* NellyCompositor::present_view: where the call ends
present_view_outcome(view_id, layers) ==
    IF ~Registered(views, view_id) THEN "unknown_view"
    ELSE IF Len(layers) # 1 THEN "layer_count"
    ELSE IF layers[1].content # "BackingStore" THEN "platform_view"
    ELSE IF layers[1].store.type # "Software" THEN "not_software"
    ELSE IF layers[1].store.allocation \notin DOMAIN buffers THEN "unknown_store"
    ELSE IF \E i \in 1..Len(layers[1].regions) : ~RectAligned(layers[1].regions[i])
    THEN "unaligned"
    ELSE "presented"

\* wl_surface::attach on surface sd: a request naming a destroyed wl_buffer is
\* not sent
attach(sd, b) == IF wl_buffers[b].destroyed THEN sd ELSE [sd EXCEPT !.attached = b]

\* wl_surface::commit on surface sd: the attached buffer becomes the current one
commit(sd) ==
    IF sd.attached = 0 THEN sd ELSE [sd EXCEPT !.committed = sd.attached, !.attached = 0]

\* WaylandSurface::request_frame_callback: wl_surface::frame creates one more
\* wl_callback for the surface, outstanding until its done event
request_frame_callback(sd) == [sd EXCEPT !.callbacks = @ + 1]

\* a variant of request_throttled_frame_callback that asks for a callback on
\* every present
request_throttled_frame_callback_always(sd) ==
    request_frame_callback([sd EXCEPT !.waiting_for_frame = TRUE])

\* WaylandSurface::request_throttled_frame_callback: swap_waiting_for_frame(true)
\* returns the flag as it was, and only a clear flag leads to a request
request_throttled_frame_callback(sd) ==
    IF ~sd.waiting_for_frame
    THEN request_frame_callback([sd EXCEPT !.waiting_for_frame = TRUE])
    ELSE [sd EXCEPT !.waiting_for_frame = TRUE]

\* NellyCompositor::present_view: the surface afterwards
present_view_surface(sd, outcome, b) ==
    IF outcome = "unknown_view" THEN sd
    ELSE IF outcome = "unaligned" THEN attach(request_throttled_frame_callback(sd), b)
    ELSE IF outcome = "presented"
    THEN commit(attach(request_throttled_frame_callback(sd), b))
    ELSE request_throttled_frame_callback(sd)

\* NellyCompositor::present_view: the requests sent on the surface's proxies
present_view_calls(sd, outcome, layer) ==
    (IF outcome # "unknown_view" /\ ~sd.waiting_for_frame THEN <<[op |-> "frame"]>> ELSE <<>>)
    \o (IF outcome \in {"unaligned", "presented"}
        THEN <<[op |-> "attach"]>> \o damage_calls(layer.regions) ELSE <<>>)
    \o (IF outcome = "presented"
        THEN <<[op |-> "set_source"], [op |-> "set_destination"], [op |-> "commit"]>>
        ELSE <<>>)

\* a variant of present_view_buffers that forgets the buffer of a present it
\* gave up on
present_view_buffers_evicting(bs, outcome, layers) ==
    IF outcome = "unaligned" THEN MapRemove(bs, layers[1].store.allocation) ELSE bs

\* a variant of present_view_buffers that moves the buffer out of the registry
\* when it is committed
present_view_buffers_taking(bs, outcome, layers) ==
    IF outcome = "presented" THEN MapRemove(bs, layers[1].store.allocation) ELSE bs

\* NellyCompositor::present_view, the buffer registry afterwards: the call
\* only looks the buffer up (self.buffers.get)
present_view_buffers(bs, outcome, layers) == bs

\* NellyCompositor::present_view, called by the engine on its raster thread:
\* it locks the view registry and talks to the surface itself
present_view(view_id, layers) ==
    /\ Alive
    /\ \E outcome \in {present_view_outcome(view_id, layers)} :
          IF outcome = "unknown_view"
          THEN /\ UNCHANGED <<surfaces, wl_buffers>>
               /\ buffers' = present_view_buffers(buffers, outcome, layers)
               /\ last' = [Step("present_view", "engine", {"views"}, <<>>, 0, "false", NoWire)
                           EXCEPT !.layers = layers]
          ELSE \E h \in {views[view_id]},
                  b \in {IF outcome \in {"unaligned", "presented"}
                         THEN buffers[layers[1].store.allocation] ELSE 0} :
                  /\ surfaces' = [surfaces EXCEPT
                                     ![h] = present_view_surface(@, outcome, b)]
                  /\ wl_buffers' = IF outcome = "presented" /\ ~wl_buffers[b].destroyed
                                   THEN [wl_buffers EXCEPT ![b].busy = TRUE]
                                   ELSE wl_buffers
                  /\ last' = [SurfaceStep("present_view", "engine",
                                          {"views", "surfaces", "proxies"},
                                          present_view_calls(surfaces[h], outcome, layers[1]),
                                          IF outcome = "presented" THEN "true" ELSE "false", h)
                              EXCEPT !.wakeup = (outcome = "presented"),
                                     !.layers = layers]
                  /\ buffers' = present_view_buffers(buffers, outcome, layers)
    /\ UNCHANGED <<delivered, responses, chan, events, views, VIEW_ID, pendingAdd,
                   pendingRemove, loop, stores, timers>>
    /\ UNCHANGED unitVars

\* Dispatch<WlBuffer, Arc<BufferBacking>>::event, Release: the compositor is
\* done with a committed buffer and the proxy is destroyed
Release(b) ==
    /\ Alive
    /\ b \in 1..Len(wl_buffers)
    /\ wl_buffers[b].busy
    /\ wl_buffers' = [wl_buffers EXCEPT ![b].busy = FALSE, ![b].destroyed = TRUE]
    /\ last' = Step("buffer_release", "platform", {"proxies"}, <<[op |-> "destroy"]>>, 0,
                    "ok", NoWire)
    /\ UNCHANGED <<delivered, responses, chan, events, views, surfaces, VIEW_ID, pendingAdd,
                   pendingRemove, loop, buffers, stores, timers>>
    /\ UNCHANGED unitVars

\* CompositorHandler::frame for Nelly: one outstanding frame callback of
\* surface h is done
frame(h) ==
    /\ Alive
    /\ h \in 1..Len(surfaces)
    /\ surfaces[h].callbacks > 0
    /\ Len(events) < MaxQueued
    /\ surfaces' = [surfaces EXCEPT ![h].waiting_for_frame = FALSE, ![h].callbacks = @ - 1]
    /\ events' = Append(events, [type |-> "Frame"])
    /\ last' = SurfaceStep("frame", "platform", {"surfaces"}, <<>>, "ok", h)
    /\ UNCHANGED <<delivered, responses, chan, views, VIEW_ID, pendingAdd, pendingRemove, loop>>
    /\ UNCHANGED compositorVars
    /\ UNCHANGED unitVars

\* Nelly::new: the NellyEvent::Frame arm of the event channel's callback
DispatchFrame ==
    /\ Alive
    /\ events # <<>>
    /\ Head(events).type = "Frame"
    /\ events' = Tail(events)
    /\ last' = Step("dispatch_frame", "platform", {}, <<>>, 0, "none", NoWire)
    /\ UNCHANGED <<delivered, responses, chan, views, surfaces, VIEW_ID, pendingAdd,
                   pendingRemove, loop>>
    /\ UNCHANGED compositorVars
    /\ UNCHANGED unitVars

\* the platform messages the engine delivers next to its other callbacks
EngineWire ==
    { Msg("wayland/xdg_toplevel/update",
          I64Bytes(IMPLICIT) \o write_string(<<110>>) \o write_string(<<>>)),
      Msg("flutter/navigation", <<1, 2>>) }

\* the sizes of the backing stores the engine asks for: 2x2, 1.5x2, -1x2
BackingStoreSizes == { <<Fin(4), Fin(4)>>, <<Fin(3), Fin(4)>>, <<Fin(-2), Fin(4)>> }

PoolOutcomes == {"ok", "create", "map"}

Layer(content, store, regions) ==
    [content |-> content, store |-> store, regions |-> regions, size |-> <<2, 2>>]

\* the layers the engine presents next to its other callbacks: one layer of a
\* software store, damaged in whole pixels or not
LayerSamples ==
    { <<Layer("BackingStore", SoftwareStore(a), << <<0, 0, 4, 4>> >>)>> : a \in Addresses }
    \cup { <<Layer("BackingStore", SoftwareStore(1), << <<0, 0, 2, 2>>, <<0, 0, 3, 4>> >>)>> }

DeliverEngineMessage == \E w \in EngineWire : platform_message(w)

Vsync == vsync

PostTask == \E in_future \in BOOLEAN : post_task(in_future)

CreateBackingStore ==
    \E size \in BackingStoreSizes, pool \in PoolOutcomes, a \in Addresses :
        create_backing_store(size[1], size[2], pool, a)

CollectBackingStore == \E i \in 0..Len(stores) : collect_backing_store(i)

PresentView == \E v \in ViewIdSamples, layers \in LayerSamples : present_view(v, layers)

BufferRelease == \E b \in 1..Len(wl_buffers) : Release(b)

FrameDone == \E h \in 1..Len(surfaces) : frame(h)

NextEngine ==
    \/ DeliverEngineMessage
    \/ DispatchPlatformMessage
    \/ Vsync
    \/ DispatchVsync
    \/ PostTask
    \/ DispatchTask
    \/ TimerFires
    \/ CreateBackingStore
    \/ CollectBackingStore
    \/ PresentView
    \/ BufferRelease
    \/ FrameDone
    \/ DispatchFrame

\* The state Spec is in once the engine has delivered all but one of the
\* platform messages of the model, each on a channel nobody listens to
\* (flutter/navigation), and each was answered with an empty response.
InitEngine ==
    /\ delivered = MaxMsgs - 1
    /\ responses = [i \in 1..MaxMsgs |-> IF i < MaxMsgs THEN << <<>> >> ELSE <<>>]
    /\ chan = <<>>
    /\ events = <<>>
    /\ views = [v \in {IMPLICIT} |-> 1]
    /\ surfaces = <<NewSurfaceData(IMPLICIT, "XdgToplevel")>>
    /\ VIEW_ID = [xdg_toplevel |-> 1, wlr_layer |-> 1]
    /\ pendingAdd = {}
    /\ pendingRemove = [v \in ViewIdSamples |-> 0]
    /\ loop = "running"
    /\ buffers = <<>>
    /\ wl_buffers = <<>>
    /\ stores = <<>>
    /\ timers = 0
    /\ last = Step("platform_message", "engine", {}, <<>>, MaxMsgs - 1, "decode_err",
                   Msg("flutter/navigation", <<1, 2>>))
    /\ callers = NoCallers
    /\ applied = NotApplied
    /\ sent = <<>>
    /\ tasks = <<>>
    /\ now = 0

SpecEngine == InitEngine /\ [][NextEngine]_vars

(***************************************************************************)
(* The compositor callbacks on their own: src/src/embedder.rs              *)
(***************************************************************************)
\* the layers the engine presents: those of LayerSamples; the rectangle
\* 0,0,1.5,2 first in the damage list; a software store in another pixel
\* format; no layer; two layers; a platform view; a store of another type
PresentSamples ==
    LayerSamples
    \cup { <<Layer("BackingStore", SoftwareStore(1), << <<0, 0, 3, 4>>, <<0, 0, 2, 2>> >>)>>,
           <<Layer("BackingStore", SoftwareStoreOf(1, "RGBA8888"), << <<0, 0, 4, 4>> >>)>>,
           <<>>,
           <<Layer("BackingStore", SoftwareStore(1), <<>>),
             Layer("BackingStore", SoftwareStore(1), <<>>)>>,
           <<Layer("PlatformView", ForeignStore, <<>>)>>,
           <<Layer("BackingStore", ForeignStore, <<>>)>> }

PresentLayers == \E v \in ViewIdSamples, layers \in PresentSamples : present_view(v, layers)

NextPresent ==
    \/ CreateBackingStore
    \/ CollectBackingStore
    \/ PresentLayers
    \/ BufferRelease
    \/ FrameDone
    \/ DispatchFrame

SpecPresent == InitEngine /\ [][NextPresent]_vars

\* The event loop polls the channel as one of its sources (calloop channel:
\* a send makes the source ready), so a message at the head of the channel
\* is dispatched by a loop that keeps running.
FairSpecEngine ==
    /\ SpecEngine
    /\ WF_vars(DispatchPlatformMessage)
    /\ WF_vars(DispatchVsync)
    /\ WF_vars(DispatchTask)

(***************************************************************************)
(* One ViewIdCounter shared by several threads:                            *)
(* src/src/platform_message/mod.rs                                         *)
(***************************************************************************)
\* the threads that call next_view_id, and the calls they make in all
MaxCallers == 3

MaxCalls == 5

\* the session variables, which the units exercised on their own leave alone
sessionVars == <<delivered, responses, chan, events, views, surfaces,
                 pendingAdd, pendingRemove, loop, buffers, wl_buffers, stores, timers, last,
                 sent, tasks, now>>

\* the threads the counter has let past its compare_exchange
InFlight == {t \in 1..MaxCallers : callers.pc[t] = "exchanged"}

\* next_view_id, first statement: serial.compare_exchange(0, 1), result ignored
compare_exchange(t) ==
    /\ callers.pc[t] = "idle"
    /\ Len(callers.returned) + Cardinality(InFlight) < MaxCalls
    /\ VIEW_ID' = [VIEW_ID EXCEPT !.xdg_toplevel = IF @ = 0 THEN 1 ELSE @]
    /\ callers' = [callers EXCEPT !.pc[t] = "exchanged"]
    /\ UNCHANGED sessionVars
    /\ UNCHANGED applied

\* next_view_id, second statement: ViewId(serial.fetch_add(1)), which returns
\* the value the counter held and wraps on overflow
fetch_add(t) ==
    /\ callers.pc[t] = "exchanged"
    /\ VIEW_ID' = [VIEW_ID EXCEPT !.xdg_toplevel = wrapping_add1(@)]
    /\ callers' = [callers EXCEPT !.pc[t] = "idle",
                                  !.returned = Append(@, VIEW_ID.xdg_toplevel)]
    /\ UNCHANGED sessionVars
    /\ UNCHANGED applied

\* The values the counter holds when next_view_id is entered by the threads
\* of the model: 1 as constructed, and the values it holds two calls before
\* i64::MAX and two calls before zero, so that the wrap-around and the skip
\* of zero are among the calls.
CounterStarts == {1, I64_MAX - 1, -2}

InitCounter ==
    /\ delivered = 0
    /\ responses = [i \in 1..MaxMsgs |-> <<>>]
    /\ chan = <<>>
    /\ events = <<>>
    /\ views = [v \in {IMPLICIT} |-> 1]
    /\ surfaces = <<NewSurfaceData(IMPLICIT, "XdgToplevel")>>
    /\ \E start \in CounterStarts :
          /\ VIEW_ID = [xdg_toplevel |-> start, wlr_layer |-> 1]
          /\ callers = [pc |-> [t \in 1..MaxCallers |-> "idle"], returned |-> <<>>,
                        start |-> start]
    /\ pendingAdd = {}
    /\ pendingRemove = [v \in ViewIdSamples |-> 0]
    /\ loop = "running"
    /\ buffers = <<>>
    /\ wl_buffers = <<>>
    /\ stores = <<>>
    /\ timers = 0
    /\ last = Step("init", "platform", {}, <<>>, 0, "none", NoWire)
    /\ applied = NotApplied
    /\ sent = <<>>
    /\ tasks = <<>>
    /\ now = 0

CompareExchange == \E t \in 1..MaxCallers : compare_exchange(t)

FetchAdd == \E t \in 1..MaxCallers : fetch_add(t)

NextCounter ==
    \/ CompareExchange
    \/ FetchAdd

SpecCounter == InitCounter /\ [][NextCounter]_vars

(***************************************************************************)
(* Pure functions applied on their own: src/src/shell/compositor.rs,       *)
(* src/src/platform_message/{binary,mod}.rs                                *)
(***************************************************************************)
\* the f64 values of logical constraints: NaN, the infinities, a value beyond
\* u32::MAX, -1, -0.5, 0, 1.5, 10.5, 100, 500
MeasureSamples ==
    {NaN, PosInf, NegInf, Huge, Fin(-2), Fin(-1), Fin(0), Fin(3), Fin(21), Fin(200), Fin(1000)}

\* the scale factors to_physical is applied with, in 120ths: 1.0, 1.5, 2.0
PixelRatios == {120, 180, 240}

\* the constraints and scale factors to_physical is applied to
ToPhysicalInputs ==
    { [logical |-> LogicalConstraints(a, b, c, d), pixel_ratio |-> r] :
         a \in MeasureSamples, b \in {Fin(200)}, c \in {Fin(1000)}, d \in MeasureSamples,
         r \in PixelRatios }

\* a function of the model about to be applied to input
Apply(op, input) == [op |-> op, input |-> input, output |-> <<>>, done |-> FALSE]

\* LogicalSizeConstraints::to_physical, applied to the input drawn
ApplyToPhysical ==
    /\ applied.op = "to_physical"
    /\ ~applied.done
    /\ applied' = [applied EXCEPT
                      !.output = to_physical(applied.input.logical, applied.input.pixel_ratio),
                      !.done = TRUE]
    /\ UNCHANGED sessionVars
    /\ UNCHANGED <<VIEW_ID, callers>>

\* one well-formed payload for the request type of each channel
DecodeSample(channel) ==
    CASE channel = "nelly/graceful_shutdown" -> <<>>
      [] channel = "wayland/xdg_toplevel/create" -> <<>>
      [] channel = "wayland/xdg_toplevel/initial_commit" -> I64Bytes(1)
      [] channel = "wayland/xdg_toplevel/update" ->
            I64Bytes(1) \o write_string(<<110>>) \o write_string(<<>>)
      [] channel = "wayland/xdg_toplevel/update_view_constraints" ->
            I64Bytes(1) \o
            ConstraintsBytes(LogicalConstraints(Fin(2), Fin(2), Fin(8), Fin(8)))
      [] channel = "wayland/xdg_toplevel/remove" -> I64Bytes(1)
      [] channel = "wayland/wlr_layer/create" -> <<2>> \o write_string(<<110>>)
      [] channel = "wayland/wlr_layer/update" ->
            I64Bytes(1) \o U32Bytes(3) \o U32Bytes(4) \o U32Bytes(5)
      [] channel = "wayland/wlr_layer/remove" -> I64Bytes(1)

\* the bytes appended to a well-formed payload
TrailingSamples == { <<0>>, <<7, 7>> }

\* the eight bytes of a u64 with only its top bit set: a string length of 2^63
TopBitLength == <<0, 0, 0, 0, 0, 0, 0, 128>>

\* payloads that end in the length prefix of a string of 2^63 bytes
HugeLengthPayloads ==
    { Msg("wayland/xdg_toplevel/update", I64Bytes(1) \o TopBitLength),
      Msg("wayland/wlr_layer/create", <<2>> \o TopBitLength) }

\* The payloads AnyPlatformRequest::decode is applied to, each with how its
\* length compares with the fields of the channel's request: "exact" for a
\* well-formed payload, "long" for one followed by more bytes, "short" for
\* every proper prefix of one and for a string length the payload cannot hold.
DecodeInputs ==
    { [channel |-> c, payload |-> DecodeSample(c), length |-> "exact"] : c \in Channels }
    \cup { [channel |-> c, payload |-> DecodeSample(c) \o t, length |-> "long"] :
             c \in Channels, t \in TrailingSamples }
    \cup UNION { { [channel |-> c, payload |-> Take(DecodeSample(c), n), length |-> "short"] :
                     n \in 0..(Len(DecodeSample(c)) - 1) } : c \in Channels }
    \cup { [channel |-> w.channel, payload |-> w.payload, length |-> "short"] :
             w \in HugeLengthPayloads }

\* AnyPlatformRequest::decode, applied to the input drawn
ApplyDecode ==
    /\ applied.op = "decode"
    /\ ~applied.done
    /\ applied' = [applied EXCEPT
                      !.output = decode(applied.input.channel, applied.input.payload),
                      !.done = TRUE]
    /\ UNCHANGED sessionVars
    /\ UNCHANGED <<VIEW_ID, callers>>

\* the values written and read back: every u8 and i8, the least, the
\* greatest and carries between bytes for the 16-bit types, values below 2^24
\* in absolute value for the wider ones, the f32 and f64 values of the
\* tables, and strings of one- to four-byte characters and none
ScalarSamples(type) ==
    CASE type = "u8" -> 0..255
      [] type = "i8" -> -128..127
      [] type = "u16" -> {0, 1, 255, 256, 65535}
      [] type = "i16" -> {-32768, -256, -1, 0, 255, 256, 32767}
      [] type \in {"u32", "u64"} -> {0, 1, 255, 256, 65536, 16777215}
      [] type \in {"i32", "i64", "ViewId"} -> {-16777216, -65536, -1, 0, 1, 256, 16777215}
      [] type = "f32" -> F32Values
      [] type = "f64" -> F64Values
      [] type = "String" ->
            { <<>>, <<110>>, <<110, 101, 108, 108, 121>>, <<110, 0>>, <<195, 169>>,
              <<226, 130, 172, 49>>, <<240, 159, 152, 128>> }

ScalarTypes ==
    {"u8", "u16", "u32", "u64", "i8", "i16", "i32", "i64", "f32", "f64", "ViewId", "String"}

RoundTripInputs ==
    UNION { { [type |-> t, value |-> x] : x \in ScalarSamples(t) } : t \in ScalarTypes }

\* BinaryWriter writes the value drawn into a buffer and BinaryReader reads
\* the buffer back
ApplyRoundTrip ==
    /\ applied.op = "round_trip"
    /\ ~applied.done
    /\ applied' = [applied EXCEPT
                      !.output = read(applied.input.type,
                                      write(applied.input.type, applied.input.value)),
                      !.done = TRUE]
    /\ UNCHANGED sessionVars
    /\ UNCHANGED <<VIEW_ID, callers>>

(***************************************************************************)
(* The mutexes a handler holds while it runs: src/src/shell/compositor.rs, *)
(* src/src/platform_message/xdg_toplevel.rs, src/src/handlers.rs,          *)
(* src/src/embedder.rs, src/src/seat/touch.rs, src/src/seat/pointer.rs.    *)
(* A handler is the sequence of what it does to mutexes, to the engine and *)
(* to the compositor connection, in program order.                         *)
(***************************************************************************)
Lock(m) == [e |-> "lock", m |-> m]

\* the MutexGuard is dropped: at the end of its statement for a temporary, at
\* drop(guard), or at the end of the scope of the binding
Unlock(m) == [e |-> "unlock", m |-> m]

\* a call into the engine
EngineCall(op) == [e |-> "engine", m |-> op]

\* a request to the compositor: it is queued on the connection
WlRequest(r) == [e |-> "request", m |-> r]

\* the mutexes locked and not yet unlocked when step i of trace t is taken
HeldAt(t, i) ==
    { t[j].m : j \in { k \in 1..(i - 1) :
                         /\ t[k].e = "lock"
                         /\ \A u \in (k + 1)..(i - 1) : t[u] # Unlock(t[k].m) } }

\* SurfaceData::previous_physical_size: *self.inner.previous_size.lock().unwrap()
previous_physical_size_locks == <<Lock("previous_size"), Unlock("previous_size")>>

\* SurfaceData::physical_size_constraints
physical_size_constraints_locks ==
    <<Lock("logical_size_constraints"), Unlock("logical_size_constraints")>>

\* SurfaceData::set_physical_size
set_physical_size_locks(sd, size) ==
    physical_size_constraints_locks \o
    (IF set_physical_size(sd, 1, size).panic THEN <<>>
     ELSE previous_physical_size_locks \o
          (IF set_physical_size(sd, 1, size).calls = <<>> THEN <<>>
           ELSE <<EngineCall(set_physical_size(sd, 1, size).calls[1].op),
                  Lock("previous_size"), Unlock("previous_size")>>))

\* SurfaceData::set_logical_size_constraints
set_logical_size_constraints_locks(sd, constraints) ==
    <<Lock("logical_size_constraints"), Unlock("logical_size_constraints")>> \o
    (IF sd.logical_size_constraints = Some(constraints) THEN <<>>
     ELSE previous_physical_size_locks \o
          (IF sd.previous_size = None THEN <<>>
           ELSE set_physical_size_locks(
                    [sd EXCEPT !.logical_size_constraints = Some(constraints)],
                    sd.previous_size[1])))

\* WindowHandler::configure for Nelly
configure_locks(sd, size) ==
    previous_physical_size_locks \o set_physical_size_locks(sd, size)

\* a variant of UpdateViewConstraints::run that keeps the registry locked
\* until it returns
run_XdgToplevelUpdateViewConstraints_locks_held(found, sd, constraints, submits) ==
    <<Lock("views")>> \o
    (IF ~found THEN <<>>
     ELSE (IF submits THEN <<WlRequest("set_min_size"), WlRequest("set_max_size")>> ELSE <<>>) \o
          set_logical_size_constraints_locks(sd, constraints)) \o
    <<Unlock("views")>>

\* xdg_toplevel::UpdateViewConstraints::run: the view is found in the registry
\* or not (the .expect panics, and the guard is dropped by the unwinding);
\* to_wayland_constraints gives the size hints to submit or none
run_XdgToplevelUpdateViewConstraints_locks(found, sd, constraints, submits) ==
    <<Lock("views")>> \o
    (IF ~found THEN <<Unlock("views")>>
     ELSE (IF submits THEN <<WlRequest("set_min_size"), WlRequest("set_max_size")>> ELSE <<>>) \o
          <<Unlock("views")>> \o
          set_logical_size_constraints_locks(sd, constraints))

\* Nelly::remove_view
remove_view_locks == <<EngineCall("remove_view")>>

\* PlatformEvent::send
send_locks == <<EngineCall("send_platform_message")>>

\* NellyCompositor::present_view: the registry stays locked to the end
present_view_locks(found) ==
    <<Lock("views")>> \o
    (IF ~found THEN <<>>
     ELSE <<WlRequest("frame"), WlRequest("attach"), WlRequest("damage_buffer"),
            WlRequest("set_source"), WlRequest("set_destination"), WlRequest("commit")>>) \o
    <<Unlock("views")>>

\* Dispatch<WlTouch, TouchData> for Nelly: the guard of data.state is bound
\* at the top of the function
touch_event_locks(event) ==
    <<Lock("touch_state")>> \o
    (IF event = "Frame" THEN <<EngineCall("send_pointer_event")>> ELSE <<>>) \o
    <<Unlock("touch_state")>>

\* Dispatch<WlPointer, PointerData> for Nelly: PointerData::frame has
\* returned before the engine is called
pointer_event_locks(event) ==
    IF event = "Frame"
    THEN <<Lock("pointer_state"), Lock("axis_frame"), Unlock("axis_frame"),
           Unlock("pointer_state"), EngineCall("send_pointer_event")>>
    ELSE <<Lock("pointer_state"), Unlock("pointer_state")>>

\* what the handler named in input i does, in program order; the reply to a
\* platform message is sent once run has returned
handler_locks(i) ==
    CASE i.handler = "configure" -> configure_locks(i.sd, i.size)
      [] i.handler = "update_view_constraints" ->
            run_XdgToplevelUpdateViewConstraints_locks(i.found, i.sd, i.constraints, i.submits)
            \o (IF i.found /\ ~set_logical_size_constraints(i.sd, 1, i.constraints).panic
                THEN <<EngineCall("send_platform_message_response")>> ELSE <<>>)
      [] i.handler = "remove" ->
            remove_view_locks \o <<EngineCall("send_platform_message_response")>>
      [] i.handler = "request_close" -> send_locks
      [] i.handler = "present_view" -> present_view_locks(i.found)
      [] i.handler = "touch" -> touch_event_locks(i.event)
      [] i.handler = "pointer" -> pointer_event_locks(i.event)

HandlerInput(handler, found, sd, size, constraints, submits, event) ==
    [handler |-> handler, found |-> found, sd |-> sd, size |-> size,
     constraints |-> constraints, submits |-> submits, event |-> event]

\* the states a surface is in when a handler finds it: added or not, sized or
\* not, with or without constraints
SurfaceSamples ==
    { [NewSurfaceData(1, "XdgToplevel") EXCEPT !.was_mapped = m, !.previous_size = p,
                                               !.logical_size_constraints = c]
      : m \in BOOLEAN,
        p \in {None, Some(<<3, 3>>), Some(<<1000, 700>>)},
        c \in {None, Some(LogicalConstraints(Fin(2), Fin(2), Fin(8), Fin(8)))} }

NoConstraints == LogicalConstraints(Fin(0), Fin(0), PosInf, PosInf)

LockInputs ==
    { HandlerInput("configure", TRUE, sd, size, NoConstraints, FALSE, "none")
      : sd \in SurfaceSamples, size \in {<<3, 3>>, <<1000, 700>>} }
    \cup { HandlerInput("update_view_constraints", found, sd, <<0, 0>>, c, submits, "none")
           : found \in BOOLEAN, sd \in SurfaceSamples, submits \in BOOLEAN,
             c \in { LogicalConstraints(Fin(2), Fin(2), Fin(8), Fin(8)),
                     LogicalConstraints(Fin(3), Fin(3), Fin(5), Fin(5)) } }
    \cup { HandlerInput(h, found, NewSurfaceData(1, "XdgToplevel"), <<0, 0>>, NoConstraints,
                        FALSE, "none")
           : h \in {"remove", "request_close", "present_view"}, found \in BOOLEAN }
    \cup { HandlerInput(h, TRUE, NewSurfaceData(1, "XdgToplevel"), <<0, 0>>, NoConstraints,
                        FALSE, event)
           : h \in {"touch", "pointer"}, event \in {"Motion", "Frame"} }

\* the handler of the input drawn runs
ApplyHandlerLocks ==
    /\ applied.op = "handler_locks"
    /\ ~applied.done
    /\ applied' = [applied EXCEPT !.output = handler_locks(applied.input), !.done = TRUE]
    /\ UNCHANGED sessionVars
    /\ UNCHANGED <<VIEW_ID, callers>>

(***************************************************************************)
(* The sizes of a backing store in 32 bits: src/src/embedder.rs            *)
(* (create_backing_store), src/src/pool.rs (SinglePool::new)               *)
(***************************************************************************)
\* i32::MIN
I32_MIN == -I32_MAX - 1

\* `as i32` of an f64: the fraction is dropped, a value out of range becomes
\* the nearest bound and a NaN becomes 0
as_i32(x) ==
    IF x.k = "nan" THEN 0
    ELSE IF x.k \in {"inf", "huge"} THEN I32_MAX
    ELSE IF x.k = "ninf" THEN I32_MIN
    ELSE IF x.h >= 0 THEN x.h \div 2 ELSE -((-x.h) \div 2)

\* byte i (0 the lowest) of the two's complement form of an i32
ByteOf(x, i) == (x \div (256 ^ i)) % 256

\* column k of the schoolbook product of two i32 values taken byte by byte
ProductColumn(a, b, k) ==
    LET RECURSIVE sum(_)
        sum(i) == IF i > k THEN 0 ELSE ByteOf(a, i) * ByteOf(b, k - i) + sum(i + 1)
    IN sum(0)

\* i32::wrapping_mul: the low 32 bits of the product, read as an i32
wrapping_mul(a, b) ==
    LET t0 == ProductColumn(a, b, 0)
        t1 == ProductColumn(a, b, 1) + (t0 \div 256)
        t2 == ProductColumn(a, b, 2) + (t1 \div 256)
        t3 == ProductColumn(a, b, 3) + (t2 \div 256)
        top == t3 % 256
    IN (IF top >= 128 THEN top - 256 ELSE top) * 16777216
       + (t2 % 256) * 65536 + (t1 % 256) * 256 + (t0 % 256)

\* i32::overflowing_mul's flag for factors that are not negative: the
\* product is above i32::MAX
mul_overflows(a, b) == b > 0 /\ a > I32_MAX \div b

\* `*` on i32: the product, or when it does not fit the build's answer: a
\* panic with overflow checks (the dev profile), the wrapped product without
\* (the release profile)
mul_i32(a, b, overflow_checks) ==
    IF mul_overflows(a, b) /\ overflow_checks
    THEN [panic |-> TRUE, val |-> 0]
    ELSE [panic |-> FALSE, val |-> wrapping_mul(a, b)]

\* PixelFormat::bytes
PixelFormatBytes == 4

\* NellyCompositor::create_backing_store up to SinglePool::new's first line:
\* the checks of the size, width and height as i32, the stride, and the
\* byte size of the pool
backing_store_layout(width, height, overflow_checks) ==
    IF ~PixelAligned(width) \/ ~PixelAligned(height)
       \/ SignNegative(width) \/ SignNegative(height)
    THEN [accepted |-> FALSE, panic |-> FALSE, width |-> 0, height |-> 0, stride |-> 0,
          size |-> 0]
    ELSE LET w == as_i32(width)
             h == as_i32(height)
             stride == mul_i32(w, PixelFormatBytes, overflow_checks)
             size == mul_i32(stride.val, h, overflow_checks)
         IN IF stride.panic
            THEN [accepted |-> TRUE, panic |-> TRUE, width |-> w, height |-> h,
                  stride |-> 0, size |-> 0]
            ELSE IF size.panic
            THEN [accepted |-> TRUE, panic |-> TRUE, width |-> w, height |-> h,
                  stride |-> stride.val, size |-> 0]
            ELSE [accepted |-> TRUE, panic |-> FALSE, width |-> w, height |-> h,
                  stride |-> stride.val, size |-> size.val]

\* the greatest width and height, in pixels, the engine asks a store for
MaxStoreDim == 30000

\* the widths and heights the engine asks for: whole numbers up to
\* MaxStoreDim, 2^29, one and a half, and a negative one
StoreDimSamples ==
    { Fin(0), Fin(2), Fin(3), Fin(-2), Fin(2 * 640), Fin(2 * 20000), Fin(2 * MaxStoreDim),
      Fin(2 * 536870912) }

LayoutInputs ==
    { [width |-> w, height |-> h, overflow_checks |-> c]
      : w \in StoreDimSamples, h \in StoreDimSamples, c \in BOOLEAN }

\* create_backing_store's arithmetic, applied to the size drawn
ApplyBackingStoreLayout ==
    /\ applied.op = "backing_store_layout"
    /\ ~applied.done
    /\ applied' = [applied EXCEPT
                      !.output = backing_store_layout(applied.input.width, applied.input.height,
                                                      applied.input.overflow_checks),
                      !.done = TRUE]
    /\ UNCHANGED sessionVars
    /\ UNCHANGED <<VIEW_ID, callers>>

InitUnits ==
    /\ delivered = 0
    /\ responses = [i \in 1..MaxMsgs |-> <<>>]
    /\ chan = <<>>
    /\ events = <<>>
    /\ views = [v \in {IMPLICIT} |-> 1]
    /\ surfaces = <<NewSurfaceData(IMPLICIT, "XdgToplevel")>>
    /\ VIEW_ID = [xdg_toplevel |-> 1, wlr_layer |-> 1]
    /\ pendingAdd = {}
    /\ pendingRemove = [v \in ViewIdSamples |-> 0]
    /\ loop = "running"
    /\ buffers = <<>>
    /\ wl_buffers = <<>>
    /\ stores = <<>>
    /\ timers = 0
    /\ last = Step("init", "platform", {}, <<>>, 0, "none", NoWire)
    /\ callers = NoCallers
    /\ applied \in {Apply("to_physical", i) : i \in ToPhysicalInputs}
                   \cup {Apply("decode", i) : i \in DecodeInputs}
                   \cup {Apply("round_trip", i) : i \in RoundTripInputs}
                   \cup {Apply("handler_locks", i) : i \in LockInputs}
                   \cup {Apply("backing_store_layout", i) : i \in LayoutInputs}
    /\ sent = <<>>
    /\ tasks = <<>>
    /\ now = 0

NextUnits ==
    \/ ApplyToPhysical
    \/ ApplyDecode
    \/ ApplyRoundTrip
    \/ ApplyHandlerLocks
    \/ ApplyBackingStoreLayout

SpecUnits == InitUnits /\ [][NextUnits]_vars

(***************************************************************************)
(* Engine-bound events: src/src/platform_message/mod.rs (PlatformEvent),   *)
(* src/src/platform_message/xdg_toplevel.rs (Close), src/src/handlers.rs   *)
(***************************************************************************)
\* the greatest number of engine-bound events sent
MaxEvents == 2

\* an event handed to send_platform_message, the engine's reply still to come
SentEvent(view_id) ==
    [view_id |-> view_id, state |-> "sent", response |-> "none", replied_on |-> "none",
     ran |-> 0, ran_on |-> "none"]

\* xdg_toplevel::Close::decode_response: the reply to a close event is empty
decode_response(data) == assert_finished(data)

\* the replies the engine passes on: an empty one, and one of one byte
ReplyData == { <<>>, <<0>> }

\* a variant of the reply callback that calls the continuation itself
reply_callback_inline(e, data, thread) ==
    [e EXCEPT !.state = "ran",
              !.response = IF decode_response(data).ok THEN "ok" ELSE "err",
              !.replied_on = thread,
              !.ran = @ + 1,
              !.ran_on = thread]

\* PlatformEvent::send, the closure handed to send_platform_message: it
\* decodes the reply and hands the continuation with the decoded reply to
\* loop_handle.insert_idle
reply_callback(e, data, thread) ==
    [e EXCEPT !.state = "idle",
              !.response = IF decode_response(data).ok THEN "ok" ELSE "err",
              !.replied_on = thread]

\* WindowHandler::request_close for Nelly, on the platform thread: Close is
\* encoded and sent to the engine, which accepts the message or refuses it
\* (send(...).unwrap())
request_close(v, accept) ==
    /\ Alive
    /\ Lookup(Session, v, "XdgToplevel") # None
    /\ Len(sent) < MaxEvents
    /\ IF accept
       THEN /\ sent' = Append(sent, SentEvent(v))
            /\ loop' = loop
            /\ last' = Step("request_close", "platform", {"engine"},
                            <<[op |-> "send_platform_message",
                               channel |-> "wayland/xdg_toplevel/close",
                               data |-> I64Bytes(v)]>>, 0, "ok", NoWire)
       ELSE /\ sent' = sent
            /\ loop' = "panicked"
            /\ last' = Step("request_close", "platform", {"engine"}, <<>>, 0, "panic", NoWire)
    /\ UNCHANGED <<delivered, responses, chan, events, views, surfaces, VIEW_ID, pendingAdd,
                   pendingRemove, callers, applied, tasks, now>>
    /\ UNCHANGED compositorVars

\* The engine calls the reply callback of event i with the reply's bytes.
\* The engine is not part of this repository: the callback comes on one of
\* its own threads or, through a posted task, on the platform thread.
platform_message_reply(i, data, thread) ==
    /\ Alive
    /\ i \in 1..Len(sent)
    /\ sent[i].state = "sent"
    /\ sent' = [sent EXCEPT ![i] = reply_callback(@, data, thread)]
    /\ last' = Woken(Step("platform_message_reply", thread, {"loop"}, <<>>, i, "none", NoWire))
    /\ UNCHANGED <<delivered, responses, chan, events, views, surfaces, VIEW_ID, pendingAdd,
                   pendingRemove, loop, callers, applied, tasks, now>>
    /\ UNCHANGED compositorVars

\* The event loop runs the idle callback of event i: the continuation is
\* called with the decoded reply (request_close unwraps it).
idle(i) ==
    /\ Alive
    /\ i \in 1..Len(sent)
    /\ sent[i].state = "idle"
    /\ sent' = [sent EXCEPT ![i].state = "ran", ![i].ran = @ + 1, ![i].ran_on = "platform"]
    /\ loop' = IF sent[i].response = "err" THEN "panicked" ELSE loop
    /\ last' = Step("idle", "platform", {}, <<>>, i,
                    IF sent[i].response = "err" THEN "panic" ELSE "ok", NoWire)
    /\ UNCHANGED <<delivered, responses, chan, events, views, surfaces, VIEW_ID, pendingAdd,
                   pendingRemove, callers, applied, tasks, now>>
    /\ UNCHANGED compositorVars

RequestClose == \E v \in DOMAIN views, accept \in BOOLEAN : request_close(v, accept)

PlatformMessageReply ==
    \E i \in 1..Len(sent), data \in ReplyData, thread \in {"engine", "platform"} :
        platform_message_reply(i, data, thread)

DispatchIdle == \E i \in 1..Len(sent) : idle(i)

\* the engine delivers the request to shut down
DeliverShutdown ==
    \E w \in {Msg("nelly/graceful_shutdown", <<>>)} : platform_message(w)

NextEvents ==
    \/ RequestClose
    \/ PlatformMessageReply
    \/ DispatchIdle
    \/ DeliverShutdown
    \/ DispatchPlatformMessage
    \/ LoopExit

SpecEvents == Init /\ [][NextEvents]_vars

\* SpecEvents with the event loop running: ready sources and idle callbacks
\* are dispatched, and event_loop.run returns once it finds the stop flag set
FairSpecEvents ==
    /\ SpecEvents
    /\ WF_vars(DispatchIdle)
    /\ WF_vars(DispatchPlatformMessage)
    /\ WF_vars(LoopExit)

(***************************************************************************)
(* A view removed while the engine still owes its add_view completion      *)
(***************************************************************************)
\* the engine delivers wayland/xdg_toplevel/remove for the created view
DeliverRemove ==
    \E w \in {Msg("wayland/xdg_toplevel/remove", I64Bytes(1))} : platform_message(w)

NextRemoval ==
    \/ Configure
    \/ DeliverRemove
    \/ DispatchPlatformMessage
    \/ EngineRemoveViewDone
    \/ DispatchViewRemoved
    \/ EngineAddViewDone

SpecRemoval == InitSize /\ [][NextRemoval]_vars

(***************************************************************************)
(* Posted tasks, one by one: src/src/embedder.rs (TaskRunner::post_task,   *)
(* the EmbedderMessage::Task arm of init)                                  *)
(***************************************************************************)
\* the most tasks the engine posts, and the last instant of the clock
MaxTasks == 2

MaxTime == 3

\* a variant of the deadline that is always the instant of the post
post_task_deadline_at_once(target_time, engine_now, instant_now) == instant_now

\* TaskRunner::post_task: the deadline, from the target time, the engine time
\* read first and Instant::now() read after it
post_task_deadline(target_time, engine_now, instant_now) ==
    IF target_time > engine_now
    THEN instant_now + (target_time - engine_now)
    ELSE instant_now

\* TaskRunner::post_task, called by the engine on one of its threads: the
\* engine time was read at engine_now, the message is sent now
post_task_at(target_time, engine_now) ==
    /\ Alive
    /\ Len(tasks) < MaxTasks
    /\ \E d \in {post_task_deadline(target_time, engine_now, now)} :
          /\ tasks' = Append(tasks, [target_time |-> target_time, deadline |-> d,
                                     state |-> "sent", ran |-> 0, ran_at |-> 0,
                                     ran_on |-> "none"])
          /\ chan' = Append(chan, [type |-> "Task", deadline |-> d, task |-> Len(tasks) + 1])
    /\ last' = Step("post_task", "engine", {}, <<>>, 0, "queued", NoWire)
    /\ UNCHANGED <<delivered, responses, events, views, surfaces, VIEW_ID, pendingAdd,
                   pendingRemove, loop, callers, applied, sent, now>>
    /\ UNCHANGED compositorVars

\* init: the EmbedderMessage::Task arm inserts Timer::from_deadline(deadline)
\* with the task in its callback
insert_timer ==
    /\ Alive
    /\ chan # <<>>
    /\ Head(chan).type = "Task"
    /\ chan' = Tail(chan)
    /\ tasks' = [tasks EXCEPT ![Head(chan).task].state = "timer"]
    /\ last' = Step("dispatch_task", "platform", {"loop"}, <<>>, 0, "ok", NoWire)
    /\ UNCHANGED <<delivered, responses, events, views, surfaces, VIEW_ID, pendingAdd,
                   pendingRemove, loop, callers, applied, sent, now>>
    /\ UNCHANGED compositorVars

\* init: the callback of the timer of task i, called by the event loop once
\* the deadline has come: engine.run_task(task.take().unwrap()), then the
\* source is dropped (TimeoutAction::Drop)
run_task(i) ==
    /\ Alive
    /\ tasks[i].state = "timer"
    /\ now >= tasks[i].deadline
    /\ tasks' = [tasks EXCEPT ![i].state = "ran", ![i].ran = @ + 1, ![i].ran_at = now,
                              ![i].ran_on = "platform"]
    /\ last' = Step("run_task", "platform", {"engine"}, <<[op |-> "run_task"]>>, i,
                    "ok", NoWire)
    /\ UNCHANGED <<delivered, responses, chan, events, views, surfaces, VIEW_ID, pendingAdd,
                   pendingRemove, loop, callers, applied, sent, now>>
    /\ UNCHANGED compositorVars

\* time passes
Tick ==
    /\ now < MaxTime
    /\ now' = now + 1
    /\ UNCHANGED <<delivered, responses, chan, events, views, surfaces, VIEW_ID, pendingAdd,
                   pendingRemove, loop, last, callers, applied, sent, tasks>>
    /\ UNCHANGED compositorVars

PostTaskAt ==
    \E target_time \in 0..(MaxTime - 1), engine_now \in {now - 1, now} \cap (0..MaxTime) :
        post_task_at(target_time, engine_now)

InsertTimer == insert_timer

RunTask == \E i \in 1..Len(tasks) : run_task(i)

NextTasks ==
    \/ PostTaskAt
    \/ InsertTimer
    \/ RunTask
    \/ Tick
    \/ DeliverShutdown
    \/ DispatchPlatformMessage
    \/ LoopExit

SpecTasks == Init /\ [][NextTasks]_vars

\* SpecTasks with the event loop running and time passing: the channel and
\* the timers are sources of the loop, and event_loop.run returns once it
\* finds the stop flag set
FairSpecTasks ==
    /\ SpecTasks
    /\ WF_vars(InsertTimer)
    /\ WF_vars(RunTask)
    /\ WF_vars(Tick)
    /\ WF_vars(DispatchPlatformMessage)
    /\ WF_vars(LoopExit)

(***************************************************************************)
(* The implicit view next to a created view: src/src/nelly.rs (Nelly::new) *)
(***************************************************************************)
\* wayland/xdg_toplevel/update_view_constraints messages for the implicit view
ImplicitWire ==
    { Msg("wayland/xdg_toplevel/update_view_constraints", I64Bytes(IMPLICIT) \o ConstraintsBytes(c))
      : c \in { LogicalConstraints(Fin(2), Fin(2), Fin(8), Fin(8)),
                LogicalConstraints(Fin(0), Fin(0), PosInf, PosInf) } }

ConfigureImplicit ==
    \E new_size \in ConfigureSizes : configure(views[IMPLICIT], new_size)

ScaleChangeImplicit == \E scale \in Scales : PreferredScale(views[IMPLICIT], scale)

DeliverImplicitConstraints == \E w \in ImplicitWire : platform_message(w)

NextImplicit ==
    \/ ConfigureImplicit
    \/ ScaleChangeImplicit
    \/ DeliverImplicitConstraints
    \/ DispatchPlatformMessage
    \/ Configure
    \/ EngineAddViewDone

SpecImplicit == InitSize /\ [][NextImplicit]_vars

(***************************************************************************)
(* Properties of the platform message pipeline and the view registry       *)
(* (checked under Spec).                                                   *)
(***************************************************************************)
\* C1: every delivered platform message gets exactly one response: never
\* two, and one as soon as the message is not waiting on the channel any
\* more (answered at once when decoding failed, answered by the dispatch
\* otherwise).
C1_ExactlyOneResponse ==
    \A id \in 1..delivered :
        /\ Len(responses[id]) <= 1
        /\ (\A i \in 1..Len(chan) : chan[i].response # id) => Len(responses[id]) = 1

\* C2: the ViewId a create request returns in its response is not registered
\* at the time the request runs, so the insert replaces no registry entry.
C2_CreateReturnsUnregisteredId ==
    [][(/\ chan # <<>>
        /\ IsCreate(Head(chan).req)
        /\ chan' = Tail(chan)
        /\ last'.result = "ok")
       => ~Registered(views, read_view_id(responses'[Head(chan).response][1]).val)]_vars

\* C5: once a remove request has run for a registered view, the view's
\* registry entry and its surface stay as they are until the dispatch of the
\* NellyEvent::ViewRemoved of that view, the only step that removes the entry.
C5_EntryKeptUntilViewRemoved ==
    [][\A v \in DOMAIN views :
          (\/ pendingRemove[v] > 0
           \/ \E i \in 1..Len(events) :
                 events[i].type = "ViewRemoved" /\ events[i].view_id = v)
          => \/ /\ Registered(views', v)
                /\ views'[v] = views[v]
                /\ ~surfaces'[views[v]].destroyed
             \/ /\ last'.op = "dispatch_view_removed"
                /\ events' = Tail(events)
                /\ Head(events).view_id = v]_vars

C10_RunFailureAnswersEmpty ==
    [][(/\ chan # <<>>
        /\ chan' = Tail(chan)
        /\ last'.result = "err")
       => /\ responses' = [responses EXCEPT ![Head(chan).response] = << <<>> >>]
          /\ loop' = loop
          /\ loop' \in {"running", "stopping"}]_vars

\* a failed request has been answered with an empty response, and a message
\* delivered before it is still waiting to be dispatched by the running loop
C10_Witness ==
    /\ last.op = "dispatch_platform_message"
    /\ last.result = "err"
    /\ responses[last.msg] = << <<>> >>
    /\ chan # <<>>
    /\ loop = "running"

(***************************************************************************)
(* Properties of the size negotiation (checked under SpecSize).            *)
(***************************************************************************)
\* the engine calls of a step that passes the size stored for surface h on to
\* the engine with the one call op
SizeCalls(op, h) ==
    <<[op |-> op, surface |-> h,
       metrics |-> Metrics(surfaces'[h], surfaces'[h].previous_size[1])]>>

\* C3 as stated: for a non-implicit view the first size applied makes
\* exactly one add_view call with that size, and every later application
\* that yields a different size makes exactly one send_window_metrics_event
\* call and no add_view.
C3_LaterSizesAlwaysUpdateMetrics ==
    [][\A h \in 1..Len(surfaces) :
          (/\ surfaces[h].view_id # IMPLICIT
           /\ surfaces'[h].previous_size # surfaces[h].previous_size)
          => IF surfaces[h].previous_size = None
             THEN last'.calls = SizeCalls("add_view", h)
             ELSE last'.calls = SizeCalls("send_window_metrics_event", h)]_vars

\* C3, amended: for a non-implicit view the first size applied makes exactly
\* one add_view call with that size; a later application that yields a
\* different size makes exactly one send_window_metrics_event call and no
\* add_view as long as was_mapped is still set, that is, as long as no
\* add_view completion has reported a failure since a size was last passed
\* to the engine.
C3_FirstSizeAddsLaterSizesUpdateMetrics ==
    [][\A h \in 1..Len(surfaces) :
          (/\ surfaces[h].view_id # IMPLICIT
           /\ surfaces'[h].previous_size # surfaces[h].previous_size)
          => IF surfaces[h].previous_size = None
             THEN last'.calls = SizeCalls("add_view", h)
             ELSE surfaces[h].was_mapped
                  => last'.calls = SizeCalls("send_window_metrics_event", h)]_vars

\* view 1, unconstrained at scale 1.0 and added with its first size, has been
\* resized to 1000x700 with one send_window_metrics_event
C3_Witness ==
    /\ last.op = "configure"
    /\ last.calls = <<[op |-> "send_window_metrics_event", surface |-> 2,
                       metrics |-> [view_id |-> 1, size |-> <<1000, 700>>,
                                    pixel_ratio |-> ScaleDen]]>>
    /\ surfaces[2].logical_size_constraints = None
    /\ 2 \notin pendingAdd

\* C7: every size passed to the engine in add_view or
\* send_window_metrics_event lies, in both dimensions, between the minimum
\* and the maximum of the physical constraints that the surface's logical
\* constraints and scale factor give at that call.
C7_SentSizeWithinConstraints ==
    \A i \in 1..Len(last.calls) :
        (/\ last.calls[i].op \in {"add_view", "send_window_metrics_event"}
         /\ surfaces[last.calls[i].surface].logical_size_constraints # None)
        => /\ last.calls[i].metrics.size[1] >=
                 physical_size_constraints(surfaces[last.calls[i].surface])[1].min_width
           /\ last.calls[i].metrics.size[1] <=
                 physical_size_constraints(surfaces[last.calls[i].surface])[1].max_width
           /\ last.calls[i].metrics.size[2] >=
                 physical_size_constraints(surfaces[last.calls[i].surface])[1].min_height
           /\ last.calls[i].metrics.size[2] <=
                 physical_size_constraints(surfaces[last.calls[i].surface])[1].max_height

\* at scale 1.5 the constraints 1.5..2.5 leave only 3x3 (ceil 2.25, floor
\* 3.75), and a configure asking for more has sent that size to the engine
C7_Witness ==
    /\ last.op = "configure"
    /\ Len(last.calls) = 1
    /\ last.calls[1].metrics.pixel_ratio = 180
    /\ last.calls[1].metrics.size = <<3, 3>>
    /\ surfaces[last.surface].logical_size_constraints =
          Some(LogicalConstraints(Fin(3), Fin(3), Fin(5), Fin(5)))

\* C8: a failure reported by the completion callback of add_view clears
\* was_mapped, and the next configure of that view, whatever size it carries,
\* calls add_view again.
C8_FailedAddViewIsRetried ==
    [][\A h \in 1..Len(surfaces) :
          /\ (/\ last'.op = "add_view_callback"
              /\ last'.surface = h
              /\ last'.result = "err"
              /\ pendingAdd' # pendingAdd)
             => ~surfaces'[h].was_mapped
          /\ (/\ surfaces[h].view_id # IMPLICIT
              /\ ~surfaces[h].was_mapped
              /\ surfaces[h].previous_size # None
              /\ last' # last
              /\ last'.op = "configure"
              /\ last'.surface = h
              /\ last'.result = "ok")
             => /\ Len(last'.calls) = 1
                /\ last'.calls[1].op = "add_view"]_vars

(***************************************************************************)
(* Properties of the engine's callbacks (checked under SpecEngine).        *)
(***************************************************************************)
\* the backing stores create_backing_store returned that are not collected
LiveStores == {i \in 1..Len(stores) : ~stores[i].collected}

\* C4: the keys of the buffer registry are exactly the allocation addresses
\* of the backing stores that were returned and are not collected yet (no two
\* of them at one address, each key paired with the wl_buffer of that
\* mapping); collecting a store removes the entry of its address, leaves the
\* registry without a proxy of the paired wl_buffer, and leaves every other
\* entry as it was.
C4_RegistryKeysAreLiveAllocations ==
    /\ [](/\ DOMAIN buffers = {stores[i].allocation : i \in LiveStores}
          /\ \A i, j \in LiveStores : stores[i].allocation = stores[j].allocation => i = j
          /\ \A a \in DOMAIN buffers : wl_buffers[buffers[a]].allocation = a)
    /\ [][\A i \in 1..Len(stores) :
             (~stores[i].collected /\ stores'[i].collected)
             => /\ stores[i].allocation \in DOMAIN buffers
                /\ stores[i].allocation \notin DOMAIN buffers'
                /\ buffers[stores[i].allocation] \notin Range(buffers')
                /\ \A k \in DOMAIN buffers \ {stores[i].allocation} :
                      k \in DOMAIN buffers' /\ buffers'[k] = buffers[k]]_vars

\* a store was presented, released and collected, its mapping is gone, and a
\* store created afterwards sits at the same address and is the only entry
C4_Witness ==
    \E i, j \in 1..Len(stores) :
        /\ i < j
        /\ stores[i].collected
        /\ ~stores[j].collected
        /\ stores[i].allocation = stores[j].allocation
        /\ wl_buffers[i].destroyed
        /\ DOMAIN buffers = {stores[j].allocation}
        /\ buffers[stores[j].allocation] = j

\* C6 as stated: no callback the engine makes on one of its threads touches
\* the view registry, a surface or a transport proxy.
C6_NoEngineCallbackTouchesPlatformState ==
    [][last'.thread = "engine"
       => /\ UNCHANGED <<views, surfaces, wl_buffers>>
          /\ last'.touched \cap {"views", "surfaces", "proxies"} = {}]_vars

\* C6, amended: platform_message, vsync and post_task touch no registry, no
\* surface, no proxy and no other state of the platform thread; each sends
\* exactly one message on the cross-thread channel (platform_message none
\* when decoding failed), and a message is taken off the channel by the
\* platform thread only.
C6_MessageCallbacksOnlySend ==
    [][/\ last'.op \in {"platform_message", "vsync", "post_task"}
          => /\ last'.thread = "engine"
             /\ UNCHANGED <<views, surfaces, wl_buffers, buffers, stores, timers, events,
                            VIEW_ID, pendingAdd, pendingRemove>>
             /\ IF last'.result = "queued"
                THEN /\ Len(chan') = Len(chan) + 1
                     /\ Take(chan', Len(chan)) = chan
                     /\ chan'[Len(chan')].type =
                           (CASE last'.op = "platform_message" -> "PlatformMessage"
                              [] last'.op = "vsync" -> "Vsync"
                              [] last'.op = "post_task" -> "Task")
                ELSE /\ last'.op = "platform_message"
                     /\ chan' = chan
       /\ (chan # <<>> /\ chan' = Tail(chan)) => last'.thread = "platform"]_vars

\* a vsync baton and a decoded platform message wait on the channel, sent
\* there by the engine's threads
C6_Witness ==
    /\ Len(chan) = 2
    /\ chan[1].type = "Vsync"
    /\ chan[2].type = "PlatformMessage"
    /\ last.op = "platform_message"
    /\ last.thread = "engine"
    /\ last.result = "queued"

(***************************************************************************)
(* Properties of ViewIdCounter (checked under SpecCounter).                *)
(***************************************************************************)
\* C11: the values next_view_id returns, in the order of the calls, are
\* strictly increasing, none of them is 0 (ViewId::IMPLICIT), and the first
\* value of a counter as constructed is 1, whatever the interleaving of the
\* calling threads and also across the wrap-around of the counter.
C11_IdsIncreaseAndSkipZero ==
    /\ \A i \in 1..Len(callers.returned) : callers.returned[i] # IMPLICIT
    /\ \A i \in 1..(Len(callers.returned) - 1) :
          callers.returned[i] < callers.returned[i + 1]
    /\ (callers.start = 1 /\ callers.returned # <<>>) => callers.returned[1] = 1

(***************************************************************************)
(* Properties of the wake-up of the event loop (checked under              *)
(* FairSpecEngine).                                                        *)
(***************************************************************************)
\* the steps in which the platform thread takes a message off the channel
DispatchOps == {"dispatch_platform_message", "dispatch_vsync", "dispatch_task"}

\* C12 as stated: every step of an engine callback that puts a message on
\* the cross-thread channel ends with an explicit wake-up of the event loop.
C12_EveryQueuedMessageIsWokenFor ==
    [][Len(chan') = Len(chan) + 1 => last'.wakeup]_vars

\* C12, amended: of the callbacks that put a message on the channel only
\* platform_message ends with an explicit wake-up (it does so for every
\* message it returns from, decoded or not); vsync and post_task send their
\* message without one.  A message on the channel is dispatched all the
\* same: the channel never stays non-empty without a dispatch while the
\* loop runs.
C12_OnlyPlatformMessageWakesAndAllAreDispatched ==
    /\ [][/\ Len(chan') = Len(chan) + 1
             => (last'.wakeup <=> last'.op = "platform_message")
          /\ (last' # last /\ last'.op = "platform_message" /\ last'.result # "panic")
             => last'.wakeup]_vars
    /\ []<>(chan = <<>> \/ ~Alive \/ last.op \in DispatchOps)

\* a vsync baton, sent without a wake-up, has been dispatched ahead of a
\* platform message that was sent after it
C12_Witness ==
    /\ last.op = "dispatch_vsync"
    /\ ~last.wakeup
    /\ chan # <<>>
    /\ chan[1].type = "PlatformMessage"

(***************************************************************************)
(* Properties of present_view (checked under SpecPresent).                 *)
(***************************************************************************)
\* C13: a present_view call that returns failure leaves the view registry
\* and the buffer registry exactly as they were, and the event loop running.
C13_FailedPresentKeepsRegistries ==
    [][(last'.op = "present_view" /\ last'.result = "false")
       => /\ views' = views
          /\ buffers' = buffers
          /\ loop' = loop
          /\ loop' = "running"]_vars

\* a present of a registered store on the implicit view was given up at a
\* fractional damage rectangle, after the buffer was attached; the store is
\* still registered
C13_Witness ==
    /\ last.op = "present_view"
    /\ last.result = "false"
    /\ Len(last.layers) = 1
    /\ last.layers[1].store.allocation \in DOMAIN buffers
    /\ last.surface = views[IMPLICIT]
    /\ [op |-> "attach"] \in Range(last.calls)

\* C14: present_view returns failure whenever it is not given exactly one
\* layer, and whenever its one layer is a platform view.
C14_LayerCountAndPlatformViewRejected ==
    (/\ last.op = "present_view"
     /\ (Len(last.layers) # 1 \/ last.layers[1].content # "BackingStore"))
    => /\ last.result = "false"
       /\ [op |-> "commit"] \notin Range(last.calls)

\* two layers of a registered store were presented on the implicit view, and
\* the call has failed
C14_Witness ==
    /\ last.op = "present_view"
    /\ Len(last.layers) = 2
    /\ last.layers[1].store.allocation \in DOMAIN buffers
    /\ last.surface = views[IMPLICIT]
    /\ last.result = "false"

\* C15: present_view returns failure and does not commit the surface when a
\* damage rectangle of the presented layer has a coordinate that is not a
\* whole number, wherever the rectangle stands in the list.
C15_FractionalDamageRejected ==
    [][(/\ last'.op = "present_view"
        /\ \E i \in 1..Len(last'.layers) :
              \E k \in 1..Len(last'.layers[i].regions) :
                 \E c \in 1..4 : last'.layers[i].regions[k][c] % 2 = 1)
       => /\ last'.result = "false"
          /\ [op |-> "commit"] \notin Range(last'.calls)
          /\ \A h \in 1..Len(surfaces) : surfaces'[h].committed = surfaces[h].committed]_vars

\* the layer of a registered store, with the rectangle 0,0,1.5,2 behind a
\* rectangle in whole pixels, was presented on the implicit view: the buffer
\* was attached, the first rectangle damaged, and the call has failed
C15_Witness ==
    /\ last.op = "present_view"
    /\ Len(last.layers) = 1
    /\ last.layers[1].regions = << <<0, 0, 2, 2>>, <<0, 0, 3, 4>> >>
    /\ last.calls = <<[op |-> "attach"], [op |-> "damage_buffer", rect |-> <<0, 0, 2, 2>>]>>
    /\ last.result = "false"

\* C16: a present_view call whose backing store has another pixel format than
\* the one of the session returns failure.
C16_MismatchedPixelFormatRejected ==
    (/\ last.op = "present_view"
     /\ \E i \in 1..Len(last.layers) :
           /\ last.layers[i].store.type = "Software"
           /\ last.layers[i].store.pixel_format # PixelFormat)
    => last.result = "false"

(***************************************************************************)
(* Properties of the pure functions (checked under SpecUnits).             *)
(***************************************************************************)
\* the least whole number not below x * s, and the greatest not above it, for
\* a finite x in halves and a scale s in 120ths
CeilOfProduct(x, s) == (x.h * s + 2 * ScaleDen - 1) \div (2 * ScaleDen)

FloorOfProduct(x, s) == (x.h * s) \div (2 * ScaleDen)

\* C17: to_physical with scale s yields ceil(min * s) for the minimums and
\* floor(max * s) for the maximums, where a rounded value that is not
\* finite, negative or greater than u32::MAX becomes 0 for a minimum and
\* u32::MAX for a maximum.
C17_ToPhysicalCeilsMinFloorsMax ==
    (applied.op = "to_physical" /\ applied.done)
    => \A f \in {"min_width", "min_height", "max_width", "max_height"} :
          LET x == applied.input.logical[f]
              s == applied.input.pixel_ratio
              isMin == f \in {"min_width", "min_height"}
              rounded == IF isMin THEN CeilOfProduct(x, s) ELSE FloorOfProduct(x, s)
          IN applied.output[f] =
                IF x.k = "fin" /\ rounded >= 0 /\ rounded <= U32_MAX
                THEN rounded
                ELSE IF isMin THEN 0 ELSE U32_MAX

\* (10.5, 100, 500, 10.5) at scale 1.0 has given (11, 100, 500, 10)
C17_Witness ==
    /\ applied.op = "to_physical"
    /\ applied.done
    /\ applied.input = [logical |-> LogicalConstraints(Fin(21), Fin(200), Fin(1000), Fin(21)),
                        pixel_ratio |-> ScaleDen]
    /\ applied.output = [min_width |-> 11, min_height |-> 100,
                         max_width |-> 500, max_height |-> 10]

\* C19: for every channel of the table, decode fails with the trailing-data
\* error (InvalidData) whenever bytes remain after the fields of the channel's
\* request, and fails with an underflow error (UnexpectedEof) whenever the
\* payload is shorter than the fields require.
C19_TrailingAndShortPayloadsRejected ==
    (applied.op = "decode" /\ applied.done)
    => /\ applied.input.length = "long" => applied.output = Err("InvalidData")
       /\ applied.input.length = "short" => applied.output = Err("UnexpectedEof")

\* C20: for every value x of a scalar type, of ViewId, and every string, the
\* empty one included, reading with BinaryReader the bytes BinaryWriter wrote
\* for x yields x and leaves the reader at the end of the buffer.
C20_ReadOfWrittenIsIdentity ==
    (applied.op = "round_trip" /\ applied.done)
    => /\ applied.output.ok
       /\ applied.output.val = applied.input.value
       /\ applied.output.rest = <<>>

\* the string of the euro sign and a digit, four bytes behind a length of 4, has
\* been written and read back
C20_Witness ==
    /\ applied.op = "round_trip"
    /\ applied.done
    /\ applied.input = [type |-> "String", value |-> <<226, 130, 172, 49>>]
    /\ applied.output = Ok(<<226, 130, 172, 49>>, <<>>)

(***************************************************************************)
(* Properties of size negotiation, continued (checked under SpecSize).     *)
(***************************************************************************)
\* C18: set_logical_size_constraints called with the constraints the surface
\* already stores makes no engine call and leaves the stored constraints,
\* was_mapped and previous_size of the surface as they were (whether or not
\* the scale factor has changed since they were stored).
C18_SameConstraintsChangeNothing ==
    [][\A v \in DOMAIN views :
          (/\ last'.op = "dispatch_platform_message"
           /\ chan # <<>>
           /\ Head(chan).type = "PlatformMessage"
           /\ Head(chan).req.type = "XdgToplevelUpdateViewConstraints"
           /\ Head(chan).req.view_id = v
           /\ surfaces[views[v]].kind = "XdgToplevel"
           /\ surfaces[views[v]].logical_size_constraints = Some(Head(chan).req.constraints))
          => /\ last'.calls = <<>>
             /\ last'.result = "ok"
             /\ surfaces'[views[v]].logical_size_constraints =
                   surfaces[views[v]].logical_size_constraints
             /\ surfaces'[views[v]].was_mapped = surfaces[views[v]].was_mapped
             /\ surfaces'[views[v]].previous_size = surfaces[views[v]].previous_size
             /\ pendingAdd' = pendingAdd]_vars

\* The second and the third message have both set the constraints of view 1
\* and the third has just been dispatched without an engine call.  The view is
\* 1000 wide, which every other set of constraints of the model forbids, so
\* the second message carried the same unbounded constraints as the third.
C18_Witness ==
    /\ last.op = "dispatch_platform_message"
    /\ last.msg = 3
    /\ last.result = "ok"
    /\ last.calls = <<>>
    /\ responses[2] # <<>>
    /\ surfaces[2].previous_size = Some(<<1000, 700>>)
    /\ surfaces[2].was_mapped
    /\ surfaces[2].logical_size_constraints =
          Some(LogicalConstraints(Fin(0), Fin(0), PosInf, PosInf))


(***************************************************************************)
(* Properties of the platform message pipeline, continued (checked under   *)
(* Spec).                                                                  *)
(***************************************************************************)
\* <T as PlatformRequest>::CHANNEL and the variant of AnyPlatformRequest for T
ChannelTable ==
    [c \in { "nelly/graceful_shutdown", "wayland/xdg_toplevel/create",
             "wayland/xdg_toplevel/initial_commit", "wayland/xdg_toplevel/update",
             "wayland/xdg_toplevel/update_view_constraints", "wayland/xdg_toplevel/remove",
             "wayland/wlr_layer/create", "wayland/wlr_layer/update",
             "wayland/wlr_layer/remove" } |->
        CASE c = "nelly/graceful_shutdown" -> "Shutdown"
          [] c = "wayland/xdg_toplevel/create" -> "XdgToplevelCreate"
          [] c = "wayland/xdg_toplevel/initial_commit" -> "XdgToplevelInitialCommit"
          [] c = "wayland/xdg_toplevel/update" -> "XdgToplevelUpdate"
          [] c = "wayland/xdg_toplevel/update_view_constraints" ->
                "XdgToplevelUpdateViewConstraints"
          [] c = "wayland/xdg_toplevel/remove" -> "XdgToplevelRemove"
          [] c = "wayland/wlr_layer/create" -> "WlrLayerCreate"
          [] c = "wayland/wlr_layer/update" -> "WlrLayerUpdate"
          [] c = "wayland/wlr_layer/remove" -> "WlrLayerRemove"]

\* C21: decode selects a request type only when the channel name is exactly
\* one of the table's names, and then the type of that name; every other name
\* (a prefix, a longer name, another case) queues nothing, is answered with
\* the one empty response of a decode failure, and the session goes on.
C21_OnlyExactChannelNamesSelect ==
    last.op = "platform_message"
    => /\ last.result = "queued"
          => /\ last.wire.channel \in DOMAIN ChannelTable
             /\ chan # <<>>
             /\ chan[Len(chan)].response = last.msg
             /\ chan[Len(chan)].req.type = ChannelTable[last.wire.channel]
       /\ last.wire.channel \notin DOMAIN ChannelTable
          => /\ last.result = "decode_err"
             /\ decode(last.wire.channel, last.wire.payload) = Err("InvalidInput")
             /\ \A i \in 1..Len(chan) : chan[i].response # last.msg
             /\ responses[last.msg] = << <<>> >>
             /\ Alive

\* a message on a channel named like the shutdown channel but for the case of
\* one letter has been refused, after a view had been created
C21_Witness ==
    /\ last.op = "platform_message"
    /\ last.wire = Msg("Nelly/graceful_shutdown", <<>>)
    /\ last.result = "decode_err"
    /\ responses[last.msg] = << <<>> >>
    /\ loop = "running"
    /\ \E v \in DOMAIN views : v # IMPLICIT

\* C22: running a create-view request allocates a ViewId, leaves an entry
\* for that id in the view registry whose surface is a new one of the variant
\* of the channel (a toplevel for wayland/xdg_toplevel/create, a layer
\* surface for wayland/wlr_layer/create), and answers with exactly the 8
\* bytes of that id.
C22_CreateRegistersVariantAndReturnsId ==
    [][(/\ last'.op = "dispatch_platform_message"
        /\ chan # <<>>
        /\ Head(chan).type = "PlatformMessage"
        /\ IsCreate(Head(chan).req))
       => /\ last'.result = "ok"
          /\ VIEW_ID' # VIEW_ID
          /\ Len(responses'[Head(chan).response]) = 1
          /\ Len(responses'[Head(chan).response][1]) = 8
          /\ \E id \in {SignedFromBytes(responses'[Head(chan).response][1])} :
                /\ id \in DOMAIN views'
                /\ views'[id] = Len(surfaces) + 1
                /\ surfaces'[views'[id]] =
                      NewSurfaceData(id, IF Head(chan).req.type = "XdgToplevelCreate"
                                         THEN "XdgToplevel" ELSE "WlrLayer")
                /\ \A v \in DOMAIN views' \ {id} : v \in DOMAIN views /\ views'[v] = views[v]]_vars

\* wayland/wlr_layer/create has been answered with the id 1 and view 1 is a
\* layer surface, next to a toplevel created before it
C22_Witness ==
    /\ last.op = "dispatch_platform_message"
    /\ last.result = "ok"
    /\ responses[last.msg] = <<I64Bytes(1)>>
    /\ 1 \in DOMAIN views
    /\ surfaces[views[1]].kind = "WlrLayer"
    /\ views[1] = Len(surfaces)
    /\ \E h \in 1..Len(surfaces) : surfaces[h].kind = "XdgToplevel" /\ surfaces[h].view_id = 1

\* C23: running the shutdown message signals the event loop to stop and
\* sends exactly one empty reply; the loop then ends by returning, without
\* the process being terminated.
C23_ShutdownRepliesAndLoopEnds ==
    /\ [][(/\ last'.op = "dispatch_platform_message"
           /\ chan # <<>>
           /\ Head(chan).type = "PlatformMessage"
           /\ Head(chan).req.type = "Shutdown")
          => /\ loop' = "stopping"
             /\ responses' = [responses EXCEPT ![Head(chan).response] = << <<>> >>]]_vars
    /\ (loop = "stopping") ~> (loop = "stopped")

\* the surface variant the update-class requests look a ViewId up as
UpdateClass ==
    [t \in {"XdgToplevelUpdate", "XdgToplevelInitialCommit",
            "XdgToplevelUpdateViewConstraints", "WlrLayerUpdate"} |->
        IF t = "WlrLayerUpdate" THEN "WlrLayer" ELSE "XdgToplevel"]

\* C24: an update-class request that names a ViewId absent from the
\* registry, or registered with another surface variant, panics: the process
\* ends, and the request is not answered as a failed request would be.
C24_UpdateOfMissingViewPanics ==
    [][(/\ last'.op = "dispatch_platform_message"
        /\ chan # <<>>
        /\ Head(chan).type = "PlatformMessage"
        /\ Head(chan).req.type \in DOMAIN UpdateClass
        /\ \/ Head(chan).req.view_id \notin DOMAIN views
           \/ surfaces[views[Head(chan).req.view_id]].kind #
                 UpdateClass[Head(chan).req.type])
       => /\ last'.result = "panic"
          /\ loop' = "panicked"
          /\ responses' = responses]_vars

\* an update-class request for view 1, which is registered as a layer surface,
\* has panicked (every request of that class in the model names view 1, and
\* wayland/wlr_layer/update finds it)
C24_Witness ==
    /\ last.op = "dispatch_platform_message"
    /\ last.result = "panic"
    /\ loop = "panicked"
    /\ 1 \in DOMAIN views
    /\ surfaces[views[1]].kind = "WlrLayer"
    /\ responses[last.msg] = <<>>

(***************************************************************************)
(* Properties of the backing stores, continued (checked under SpecPresent  *)
(* and SpecEngine).                                                        *)
(***************************************************************************)
\* C25: the address create_backing_store inserts into the buffer registry is
\* not a key of it already, and is the address of no backing store that is
\* still registered.
C25_NewAllocationIsNoRegisteredKey ==
    [][(last'.op = "create_backing_store" /\ last'.result = "some")
       => /\ Len(stores') = Len(stores) + 1
          /\ stores'[Len(stores')].allocation \notin DOMAIN buffers
          /\ stores'[Len(stores')].allocation \in DOMAIN buffers'
          /\ \A a \in DOMAIN buffers : buffers'[a] = buffers[a]
          /\ \A i \in 1..Len(stores) :
                ~stores[i].collected
                => stores[i].allocation # stores'[Len(stores')].allocation]_vars

\* create_backing_store has handed out the address of an earlier backing
\* store again, after that store was collected and its buffer destroyed
C25_Witness ==
    /\ last.op = "create_backing_store"
    /\ last.result = "some"
    /\ Len(stores) = 2
    /\ stores[1].collected
    /\ stores[2].allocation = stores[1].allocation
    /\ stores[2].allocation \in DOMAIN buffers

\* who holds the Arc<BufferBacking> of wl_buffer b: the object data of the
\* wl_buffer until the object is destroyed, and the proxy in the buffer
\* registry (the SinglePool's own reference is gone when create_backing_store
\* has returned)
Holders(b) ==
    (IF wl_buffers[b].destroyed THEN {} ELSE {"object"})
    \cup (IF b \in Range(buffers) THEN {"registry"} ELSE {})

\* C26: the region of a backing store has a holder, and so stays mapped, for
\* as long as the engine has not collected the store and for as long as the
\* compositor has not released the buffer.
C26_RegionMappedWhileInUse ==
    \A b \in 1..Len(wl_buffers) :
        (~stores[b].collected \/ wl_buffers[b].busy)
        => /\ Holders(b) # {}
           /\ \A c \in 1..Len(wl_buffers) :
                 (c # b /\ Holders(c) # {})
                 => wl_buffers[c].allocation # wl_buffers[b].allocation

\* two stores in flight: the buffer of one was released and destroyed while the
\* engine still holds the store, the other was collected while the compositor
\* still holds its buffer
C26_Witness ==
    \E b, c \in 1..Len(wl_buffers) :
        /\ wl_buffers[b].destroyed
        /\ ~stores[b].collected
        /\ Holders(b) = {"registry"}
        /\ stores[c].collected
        /\ wl_buffers[c].busy
        /\ Holders(c) = {"object"}

\* create_backing_store for a 2x2 store with SinglePool::new succeeding
CreateSucceeds ==
    \E a \in Addresses : create_backing_store(Fin(4), Fin(4), "ok", a) /\ last'.result = "some"

\* C27: create_backing_store returns no buffer and leaves the buffer registry
\* (and the buffers and stores behind it) unchanged when shared-memory
\* creation fails and when the requested size is negative or not
\* integer-valued; the session keeps running, and a create_backing_store call
\* after it can succeed.
C27_FailedCreateReturnsNoneAndCanBeRetried ==
    /\ [][(/\ last'.op = "create_backing_store"
           /\ \/ last'.config[3] \in {"create", "map"}
              \/ \E d \in 1..2 : \/ last'.config[d].k # "fin"
                                  \/ last'.config[d].h < 0
                                  \/ last'.config[d].h % 2 # 0)
          => /\ last'.result = "none"
             /\ buffers' = buffers
             /\ wl_buffers' = wl_buffers
             /\ stores' = stores
             /\ loop' = loop
             /\ loop' \in {"running", "stopping"}]_vars
    /\ [](/\ last.op = "create_backing_store"
          /\ last.result = "none"
          /\ Len(stores) < MaxStores
          /\ Addresses \ MappedAddresses # {}
          => ENABLED CreateSucceeds)

\* shared-memory creation has failed after the pool was requested, for a
\* store of a valid size, while another store is registered
C27_Witness ==
    /\ last.op = "create_backing_store"
    /\ last.result = "none"
    /\ last.config = <<Fin(4), Fin(4), "map">>
    /\ DOMAIN buffers # {}
    /\ loop = "running"

(***************************************************************************)
(* Properties of the engine-bound events (checked under FairSpecEvents)    *)
(***************************************************************************)
\* the reply callback of an event does not call the continuation, whatever
\* thread it comes on; the continuation is called from an idle callback of
\* the event loop, on the platform thread, after the reply, and once at most
ContinuationCrossesToPlatformThread ==
    /\ [](\A i \in 1..Len(sent) :
            /\ sent[i].ran <= 1
            /\ sent[i].ran = 1 => sent[i].ran_on = "platform" /\ sent[i].replied_on # "none")
    /\ [][\A i \in 1..Len(sent) :
            /\ sent[i].state = "sent" /\ sent'[i].state # "sent"
                  => sent'[i].state = "idle" /\ sent'[i].ran = 0 /\ last'.wakeup
            /\ sent'[i].ran > sent[i].ran
                  => sent[i].state = "idle" /\ last'.op = "idle" /\ last'.thread = "platform"]_vars

InRegistry(h) ==
    /\ Registered(views, surfaces[h].view_id)
    /\ views[surfaces[h].view_id] = h

\* C29: when the add_view completion of a view fires after the view has been
\* removed from the registry, whether it reports success or failure, the
\* process does not end, the registry is left as it is, nothing is inserted
\* and no other surface changes.
C29_LateAddCompletionIsNoOp ==
    [][\A h \in pendingAdd \ pendingAdd' :
          ~InRegistry(h) =>
              /\ views' = views
              /\ loop' = loop
              /\ Len(surfaces') = Len(surfaces)
              /\ surfaces'[h].destroyed = surfaces[h].destroyed
              /\ \A k \in 1..Len(surfaces) : k # h => surfaces'[k] = surfaces[k]]_vars

\* view 1 was sized, removed, and its surface dropped before the engine
\* reported that adding the view had failed
C29_Witness ==
    /\ last.op = "add_view_callback" /\ last.result = "err"
    /\ surfaces[last.surface].destroyed
    /\ ~Registered(views, 1)
    /\ loop = "running"


(***************************************************************************)
(* Properties of the mutexes (checked under SpecUnits)                     *)
(***************************************************************************)
\* a handler has run and applied.output is what it did
HandlerRan == applied.op = "handler_locks" /\ applied.done

\* no mutex of the set ms is held at any call into the engine
FreeAtEngineCalls(ms) ==
    HandlerRan =>
        \A i \in 1..Len(applied.output) :
            applied.output[i].e = "engine" => HeldAt(applied.output, i) \cap ms = {}

C31_ScaleChangeOnlyStoresScale ==
    /\ [][\A h \in 1..Len(surfaces) :
            surfaces'[h].scale_factor # surfaces[h].scale_factor =>
                /\ surfaces'[h] = [surfaces[h] EXCEPT !.scale_factor = surfaces'[h].scale_factor]
                /\ last'.calls = <<>>
                /\ pendingAdd' = pendingAdd
                /\ views' = views]_vars
    /\ [](last.calls # <<>> /\ last.op \in {"configure", "dispatch_platform_message"} =>
            \A i \in 1..Len(last.calls) :
                last.calls[i].op \in {"add_view", "send_window_metrics_event"} =>
                    ConstrainedSize(surfaces[last.calls[i].surface],
                                    surfaces[last.calls[i].surface].previous_size[1])
                        = surfaces[last.calls[i].surface].previous_size[1])

\* the scale of a sized, constrained surface has just changed, and the size
\* stored and last passed to the engine is outside the bounds at the new scale
C31_Witness ==
    /\ last.op = "preferred_scale"
    /\ surfaces[last.surface].logical_size_constraints # None
    /\ surfaces[last.surface].previous_size # None
    /\ ~ClampPanics(physical_size_constraints(surfaces[last.surface])[1])
    /\ ConstrainedSize(surfaces[last.surface], surfaces[last.surface].previous_size[1])
           # surfaces[last.surface].previous_size[1]


(***************************************************************************)
(* Properties of the posted tasks (checked under FairSpecTasks)            *)
(***************************************************************************)
\* a task is handed to run_task once at most, on the platform thread, not
\* before its target time, and its deadline is the instant of the post when
\* the target time had come already
TaskRunsOnPlatformThreadInTime ==
    /\ [](\A i \in 1..Len(tasks) :
            /\ tasks[i].ran <= 1
            /\ tasks[i].ran = 1 =>
                  /\ tasks[i].ran_on = "platform"
                  /\ tasks[i].ran_at >= tasks[i].target_time
                  /\ tasks[i].ran_at >= tasks[i].deadline)
    /\ [][Len(tasks') = Len(tasks) + 1 =>
            /\ tasks'[Len(tasks')].deadline >= now
            /\ tasks'[Len(tasks')].target_time <= now - 1 => tasks'[Len(tasks')].deadline = now
            /\ last'.thread = "engine"]_vars
    /\ [][\A i \in 1..Len(tasks) :
            tasks'[i].ran > tasks[i].ran =>
                tasks[i].state = "timer" /\ last'.thread = "platform"]_vars

\* C32 (as stated): every task posted through post_task is handed to
\* run_task exactly once, on the platform thread, and not before its target
\* time, however the posts interleave.
C32_EveryTaskRunsExactlyOnce ==
    /\ TaskRunsOnPlatformThreadInTime
    /\ \A i \in 1..MaxTasks : (i <= Len(tasks)) ~> (i <= Len(tasks) /\ tasks[i].ran = 1)

\* C32 (amended): a posted task is handed to run_task once at most, on the
\* platform thread and not before its target time, and exactly once unless
\* the process has ended or event_loop.run has returned first.
C32_EveryTaskRunsOnceWhileLoopRuns ==
    /\ TaskRunsOnPlatformThreadInTime
    /\ \A i \in 1..MaxTasks :
          (i <= Len(tasks)) ~> (i <= Len(tasks) /\ (tasks[i].ran = 1 \/ ~Alive))

\* two tasks were posted; the one posted second, due at once, has run before
\* the first, which waits for its target time
C32_Witness ==
    /\ Len(tasks) = 2
    /\ tasks[2].ran = 1 /\ tasks[2].deadline < tasks[1].deadline
    /\ tasks[1].state = "timer" /\ tasks[1].ran = 0 /\ now < tasks[1].deadline
    /\ last.op = "run_task"


(***************************************************************************)
(* Properties of the implicit view (checked under SpecImplicit)            *)
(***************************************************************************)
\* the engine calls of the last step that are about a surface of the
\* implicit view
ImplicitCalls ==
    { i \in 1..Len(last.calls) :
        /\ last.calls[i].op \in {"add_view", "send_window_metrics_event"}
        /\ surfaces[last.calls[i].surface].view_id = IMPLICIT }

\* C33: the implicit view is never passed to add_view: its surface is mapped
\* from its creation on and no add is ever pending for it, and each of its
\* sizes, the first one included, goes to the engine as
\* send_window_metrics_event.
C33_ImplicitViewIsNeverAdded ==
    /\ \A i \in ImplicitCalls : last.calls[i].op = "send_window_metrics_event"
    /\ \A h \in 1..Len(surfaces) :
          surfaces[h].view_id = IMPLICIT => surfaces[h].was_mapped /\ h \notin pendingAdd
    /\ (last.op = "configure" /\ last.result = "ok" /\ last.calls = <<>>
        /\ surfaces[last.surface].view_id = IMPLICIT)
          => surfaces[last.surface].previous_size # None

\* the implicit view has just been sized while the add of view 1 is pending:
\* its size went to the engine as send_window_metrics_event
C33_Witness ==
    /\ last.op = "configure"
    /\ surfaces[last.surface].view_id = IMPLICIT
    /\ Len(last.calls) = 1
    /\ last.calls[1].op = "send_window_metrics_event"
    /\ pendingAdd # {}


(***************************************************************************)
(* Properties of the size negotiation, continued (checked under SpecSize)  *)
(***************************************************************************)
\* C34: no send_window_metrics_event is made for a view other than the
\* implicit one while the completion of its add_view is still to come.
C34_NoMetricsWhileAddIsPending ==
    \A i \in 1..Len(last.calls) :
        (/\ last.calls[i].op = "send_window_metrics_event"
         /\ surfaces[last.calls[i].surface].view_id # IMPLICIT)
        => last.calls[i].surface \notin pendingAdd


(***************************************************************************)
(* Properties of present_view, continued (checked under SpecPresent)       *)
(***************************************************************************)
\* C35: the wl_buffer that a present_view call attaches to the surface has
\* not been destroyed: after the release event has destroyed the buffer of a
\* backing store, no present of that store, still registered, attaches it.
C35_NoAttachOfDestroyedBuffer ==
    (/\ last.op = "present_view"
     /\ \E i \in 1..Len(last.calls) : last.calls[i].op = "attach")
    => ~wl_buffers[buffers[last.layers[1].store.allocation]].destroyed


\* C36: an update_view_constraints request ends without a panic for every
\* constraint tuple that decodes, a minimum above the maximum and NaN and
\* infinities included, when the surface has a physical size already, and so
\* does every size applied later under those constraints.
C36_EveryDecodableConstraintIsHandled ==
    /\ loop # "panicked"
    /\ last.op \in {"dispatch_platform_message", "configure"} => last.result # "panic"


\* C37: a configure event that suggests neither a width nor a height, for a
\* window that has a physical size and no constraints, applies that same
\* size again and so makes no engine call, whatever the scale factor.
C37_ConfigureWithoutSizeKeepsSize ==
    [][(/\ last'.op = "configure"
        /\ last'.config = <<None, None>>
        /\ surfaces[last'.surface].previous_size # None
        /\ surfaces[last'.surface].logical_size_constraints = None)
       => /\ last'.calls = <<>>
          /\ surfaces'[last'.surface].previous_size = surfaces[last'.surface].previous_size]_vars


(***************************************************************************)
(* Size hints: the constraints of update_view_constraints requests, a      *)
(* minimum without a maximum among them, as the compositor receives them.  *)
(***************************************************************************)
\* constraints that set a minimum of 1x1 and leave the maximum unbounded
UnboundedConstraints == LogicalConstraints(Fin(2), Fin(2), PosInf, PosInf)

UnboundedConstraintWire ==
    { Msg("wayland/xdg_toplevel/update_view_constraints",
          I64Bytes(1) \o ConstraintsBytes(UnboundedConstraints)) }

DeliverHintConstraints ==
    \E w \in ConstraintWire \cup UnboundedConstraintWire : platform_message(w)

NextHints ==
    \/ Configure
    \/ DeliverHintConstraints
    \/ DispatchPlatformMessage

SpecHints == InitSize /\ [][NextHints]_vars

\* a minimum of the model's f64 values that is finite and not negative, and a
\* maximum that is such a value too or infinity, the minimum not above it
OrderedDimension(lo, hi) ==
    /\ lo.k = "fin" /\ lo.h >= 0
    /\ \/ hi.k = "inf"
       \/ hi.k = "fin" /\ lo.h <= hi.h

\* C38: an update_view_constraints request for a registered toplevel whose
\* constraints have, in both dimensions, a minimum not above the maximum
\* (infinity standing for no maximum) submits set_min_size with the minimum
\* rounded up and set_max_size with the maximum rounded down, 0 for no
\* maximum; a request that submits nothing has a minimum above its maximum.
C38_OrderedConstraintsAreSubmitted ==
    [][(/\ last'.op = "dispatch_platform_message"
        /\ chan # <<>>
        /\ Head(chan).type = "PlatformMessage"
        /\ Head(chan).req.type = "XdgToplevelUpdateViewConstraints"
        /\ Lookup(Session, Head(chan).req.view_id, "XdgToplevel") # None
        /\ OrderedDimension(Head(chan).req.constraints.min_width,
                            Head(chan).req.constraints.max_width)
        /\ OrderedDimension(Head(chan).req.constraints.min_height,
                            Head(chan).req.constraints.max_height))
       => LET c == Head(chan).req.constraints
              limit(hi) == IF hi.k = "inf" THEN 0 ELSE FloorDiv(hi.h, 2)
          IN last'.wl = <<[op |-> "set_min_size", width |-> CeilDiv(c.min_width.h, 2),
                                                   height |-> CeilDiv(c.min_height.h, 2)],
                          [op |-> "set_max_size", width |-> limit(c.max_width),
                                                   height |-> limit(c.max_height)]>>]_vars


\* the wl_surface::frame requests among the requests of a step
FrameRequests(calls) == {i \in 1..Len(calls) : calls[i].op = "frame"}

\* C39: no surface ever has more than one frame callback outstanding;
\* present_view asks for a frame callback only on a surface whose waiting flag
\* was clear, and a set flag is cleared only by the frame-done handler of
\* that surface.
C39_OneFrameCallbackPerSurface ==
    /\ [](\A h \in 1..Len(surfaces) :
            /\ surfaces[h].callbacks <= 1
            /\ surfaces[h].callbacks = 1 => surfaces[h].waiting_for_frame)
    /\ [][/\ (last'.op = "present_view" /\ last'.surface # 0)
             => /\ (FrameRequests(last'.calls) # {}
                      <=> ~surfaces[last'.surface].waiting_for_frame)
                /\ surfaces'[last'.surface].callbacks
                      = surfaces[last'.surface].callbacks + Cardinality(FrameRequests(last'.calls))
           /\ \A h \in 1..Len(surfaces) :
                 surfaces[h].waiting_for_frame /\ ~surfaces'[h].waiting_for_frame
                 => last'.op = "frame" /\ last'.surface = h]_vars

\* a present of a surface that still waits for its frame callback has asked
\* for no second one
C39_Witness ==
    /\ last.op = "present_view"
    /\ last.result = "true"
    /\ last.surface # 0
    /\ FrameRequests(last.calls) = {}
    /\ surfaces[last.surface].callbacks = 1
    /\ surfaces[last.surface].waiting_for_frame


\* C40: for every size create_backing_store accepts, width and height are
\* the same numbers as i32, the stride is exactly four times the width and
\* the pool's byte size exactly the stride times the height, none of them
\* leaving the signed 32-bit range.
C40_BackingStoreArithmeticFits ==
    (applied.op = "backing_store_layout" /\ applied.done /\ applied.output.accepted)
    => /\ ~applied.output.panic
       /\ Fin(2 * applied.output.width) = applied.input.width
       /\ Fin(2 * applied.output.height) = applied.input.height
       /\ applied.output.stride >= 0
       /\ applied.output.stride % PixelFormatBytes = 0
       /\ applied.output.stride \div PixelFormatBytes = applied.output.width
       /\ applied.output.size >= 0
       /\ applied.output.height > 0
            => /\ applied.output.size % applied.output.height = 0
               /\ applied.output.size \div applied.output.height = applied.output.stride


=============================================================================
